---- MODULE Spec2Model ----
(***************************************************************************)
(* Gap-analysis service: the Orchestrator (GapAnalysisService.analyze_paper *)
(* with its per-candidate pipelines) and the Protocol Adapter               *)
(* (RabbitMQService.process_message).                                       *)
(*                                                                          *)
(* Spec         runs analyze_paper, called with a request object.           *)
(* SpecFair     is Spec with a call in progress taking its next step.       *)
(* SpecAdapter  runs process_message on delivered message bodies.           *)
(* SpecGap      runs one pipeline with every field _validate_gap writes.    *)
(* SpecLimiter, SpecRetry, SpecDedup and SpecSearch run the rate limiter,   *)
(* the retry wrapper, _deduplicate_results and search_papers.               *)
(* SpecExtract  runs GrobidClient.extract_batch.                            *)
(***************************************************************************)
EXTENDS Integers, Sequences, FiniteSets, TLC

\* ---------------------------------------------------------------- bounds
MaxCandidates == 3      \* most candidates generate_initial_gaps returns
MaxCalls == 2           \* calls of analyze_paper on one service object
MaxMessages == 2        \* messages delivered to process_message
MaxCallers == 3         \* coroutines calling the rate limiter
MaxMaxCalls == 2        \* largest max_calls a limiter is constructed with
MaxTimeWindow == 2      \* largest time_window a limiter is constructed with
MaxOps == 3             \* calls of retry-wrapped operations in progress
MaxLen == 3             \* longest list handed to _deduplicate_results
MaxProviderResults == 1 \* most results one provider returns
MaxMaxResults == 2      \* largest max_results search_papers is called with
MaxPapers == 3          \* most related papers handed to extract_batch

\* ------------------------------------------------------ program constants
batch_size == 5         \* AsyncBatchProcessor(batch_size=5, ...)
max_concurrent == 2     \* AsyncBatchProcessor(..., max_concurrent=2)
GEMINI_RATE_LIMIT == 15 \* settings.GEMINI_RATE_LIMIT, requests per minute
GEMINI_TIME_WINDOW == 60 \* RateLimiter(..., time_window=60)
max_attempts == 3       \* @retry_async(max_attempts=3, ...)
DUPLICATE_THRESHOLD_TENTHS == 8 \* if similarity > 0.8
prefetch_count == 1     \* channel.set_qos(prefetch_count=1)

\* Python's None, for variables that otherwise hold a record.
None == [none |-> TRUE]

Candidates == 1..MaxCandidates
Callers == 1..MaxCallers
Ops == 1..MaxOps

\* ------------------------------------------------------------- requests
\* The attribute names an object of class GapAnalysisRequest has: the
\* declared fields, no aliases.
SchemaAttrs == {"paperId", "paperExtractionId", "correlationId", "requestId", "config"}

\* The attribute names analyze_paper and process_message read from the
\* request.
SnakeAttrs == {"paper_id", "paper_extraction_id", "correlation_id", "request_id", "config"}

\* GapAnalysisRequest(**request_data): the object has the schema's fields.
GapAnalysisRequest(rid, cid) ==
    [attrs |-> SchemaAttrs, requestId |-> rid, correlationId |-> cid]

\* request.<name>: the attribute exists or the read raises AttributeError.
HasAttr(req, name) == name \in req.attrs

RequestIds == {"req1"}
CorrelationIds == {"cor1"}

\* The request objects analyze_paper is called with: an instance of the
\* declared schema class (what process_message builds; every attribute the
\* method reads is missing on it), or an object that has the attributes
\* the method body reads (paper_id, request_id, ...), on which the pipeline
\* runs.
RequestObjects ==
    { [attrs |-> a, requestId |-> r, correlationId |-> c] :
        a \in {SchemaAttrs, SnakeAttrs}, r \in RequestIds, c \in CorrelationIds }

\* ------------------------------------------------------------ responses
\* GapAnalysisResponse: total_gaps and valid_gaps default to 0, error to None.
GapAnalysisResponse(rid, cid, status, total, valid, gaps, error, origin) ==
    [request_id |-> rid, correlation_id |-> cid, status |-> status,
     total_gaps |-> total, valid_gaps |-> valid, gaps |-> gaps,
     error |-> error, origin |-> origin]

VARIABLES
    \* analyze_paper
    opc,            \* position in analyze_paper
    request,        \* the request argument
    analysis,       \* the local `analysis`: None or the GapAnalysis object
    fetched,        \* what _fetch_paper_data returned (None before it has)
    row,            \* the Run as last committed to the data store
    initial_gaps,   \* number of candidates generate_initial_gaps returned
    gpc,            \* position of each candidate's _process_single_gap
    gap_record,     \* each candidate's ResearchGap object (None before creation)
    gap_results,    \* the result slots of batch_processor.process
    response,       \* the value analyze_paper returns (None while none)
    exc,            \* the exception in flight ("none" when there is none)
    outcome,        \* how the call ended: "none", "returned", "raised"
    calls,          \* calls of analyze_paper started so far
    searchClosed,   \* search_service.client has been closed
    grobidClosed,   \* grobid_client.client has been closed
    \* history of the current call
    excStep,        \* the step whose exception reached the except clause
    gexc,           \* per candidate: the steps of its pipeline that raised
    \* process_message
    apc,            \* position in process_message
    body,           \* the delivered message body
    areq,           \* the local `request` (None until built)
    published,      \* responses published for the current message
    pubAttempts,    \* exchange publishes attempted for the current message
    pubFailed,      \* a publish attempt for the current message failed
    settled,        \* how message.process() settled the message
    propagated,     \* an exception left process_message
    delivered,      \* messages delivered so far
    \* the rate limiter
    rate_limiter,   \* the RateLimiter object: max_calls, time_window, calls, lock
    lpc,            \* position of each caller in wait_if_needed
    seen,           \* per caller: the number of calls it found in the window
    wake,           \* per caller: time left to sleep
    recent,         \* ages of the acquisitions completed in the last time_window
    waited,         \* the callers that had to sleep
    \* the retry wrapper
    rpc,            \* position of each wrapped call
    attempts,       \* per wrapped call: the wrapper's attempt counter
    invocations,    \* per wrapped call: the outcome of each invocation so far
    retry_result,   \* per wrapped call: what the wrapper handed to its caller
    \* _deduplicate_results
    dpc,            \* position of the caller of _deduplicate_results
    dedup_input,    \* the list it is called with
    dedup_output,   \* the list it returned
    dedup_twice,    \* what it returned when called with its own output
    \* search_papers
    spc,            \* position in search_papers
    max_results,    \* its max_results argument
    ppc,            \* position of each provider's search
    provider_failed, \* per provider: its request failed
    results_lists,  \* per provider: the list its search returned
    all_results,    \* the local all_results
    unique_results, \* the local unique_results
    search_result,  \* the list search_papers returned
    \* one pipeline in detail
    vpc,            \* position in _process_single_gap / _validate_gap
    grecord,        \* its gap_record (None before creation)
    trace,          \* the calls made on the AI provider, limiter and services
    caught,         \* the exception the except clause of _validate_gap caught
    validate_returned, \* what _validate_gap returned (None while it has not)
    single_result,  \* what _process_single_gap returned
    papers_found,   \* whether the search found related papers
    candidate,      \* the InitialGap the pipeline works on
    \* extract_batch
    epc,            \* position in extract_batch
    batch_papers,   \* its argument papers
    gathered,       \* per task: what it produced (None while it runs)
    extracted_contents \* the list extract_batch returned

limiterVars == <<rate_limiter, lpc, seen, wake, recent, waited>>
retryVars == <<rpc, attempts, invocations, retry_result>>
dedupVars == <<dpc, dedup_input, dedup_output, dedup_twice>>
searchVars == <<spc, max_results, ppc, provider_failed, results_lists,
                all_results, unique_results, search_result>>
gapVars == <<vpc, grecord, trace, caught, validate_returned, single_result,
            papers_found, candidate>>
extractVars == <<epc, batch_papers, gathered, extracted_contents>>
libVars == <<limiterVars, retryVars, dedupVars, searchVars, gapVars, extractVars>>

\* The three providers, in the order search_papers lists their tasks.
Providers == <<"semantic_scholar", "crossref", "arxiv">>
ProviderIds == 1..Len(Providers)
orchVars == <<opc, request, analysis, fetched, row, initial_gaps, gpc, gap_record,
              gap_results, response, exc, outcome, calls, searchClosed,
              grobidClosed, excStep, gexc>>
adapterVars == <<apc, body, areq, published, pubAttempts, pubFailed, settled,
                 propagated, delivered>>
vars == <<orchVars, adapterVars, libVars>>

\* ------------------------------------------------------------------ Run
\* GapAnalysis(...) in _create_gap_analysis: a Run in status PROCESSING.
\* The counts are not set there; 0 stands for the column default.
NewGapAnalysis(req) ==
    [request_id |-> req.requestId, correlation_id |-> req.correlationId,
     status |-> "PROCESSING", total_gaps_identified |-> 0,
     valid_gaps_count |-> 0, invalid_gaps_count |-> 0,
     error_message |-> "none"]

\* Mutant: invalid_gaps_count is set without subtracting the valid gaps.
UpdateAnalysisSummary_NoSubtraction(a, total_gaps, valid_gaps) ==
    [a EXCEPT !.total_gaps_identified = total_gaps,
              !.valid_gaps_count = valid_gaps,
              !.invalid_gaps_count = total_gaps,
              !.status = "COMPLETED"]

\* _update_analysis_summary, the assignments before its commit.
UpdateAnalysisSummary(a, total_gaps, valid_gaps) ==
    [a EXCEPT !.total_gaps_identified = total_gaps,
              !.valid_gaps_count = valid_gaps,
              !.invalid_gaps_count = total_gaps - valid_gaps,
              !.status = "COMPLETED"]

\* Mutant: only the error text is written, the status is left as it is.
MarkAnalysisFailed_KeepsStatus(a, error) ==
    [a EXCEPT !.error_message = error]

\* _mark_analysis_failed, the assignments before its commit.
MarkAnalysisFailed(a, error) ==
    [a EXCEPT !.status = "FAILED", !.error_message = error]

\* ----------------------------------------------------------------- Gaps
Pending == [pending |-> TRUE]   \* a result slot not yet filled

\* ResearchGap(...) in _create_gap_record: order_index is the task's index.
\* ResearchGap(...) once _create_gap_record has committed it: the object
\* with its fields, and stored_status, the validation_status of its row in
\* the data store.
NewResearchGap(index) ==
    [order_index |-> index, validation_status |-> "INITIAL",
     validation_confidence |-> "none", expanded |-> FALSE,
     stored_status |-> "INITIAL"]

\* await session.commit() after a write to record's validation_status: the
\* row takes the object's status, or, the commit failing, keeps its own.
Commit(record, committed) ==
    IF committed
    THEN [record EXCEPT !.stored_status = record.validation_status]
    ELSE record

\* valid_gaps = [result for result in gap_results if result is not None]
RECURSIVE FilterNotNone(_)
FilterNotNone(results) ==
    IF results = <<>> THEN <<>>
    ELSE IF Head(results) = None THEN FilterNotNone(Tail(results))
         ELSE <<Head(results)>> \o FilterNotNone(Tail(results))

\* The list batch_processor.process returned for n tasks.
ResultList(results, n) == [i \in 1..n |-> results[i]]

\* The GapDetail entries _prepare_response builds, one per valid gap.
GapDetails(valid_gaps) ==
    [k \in 1..Len(valid_gaps) |->
        [order_index |-> valid_gaps[k].order_index,
         validation_status |-> valid_gaps[k].validation_status]]

\* Mutant: total_gaps is taken from the number of valid gaps.
PrepareResponse_TotalFromValid(a, valid_gaps) ==
    GapAnalysisResponse(a.request_id, a.correlation_id, "SUCCESS",
                        Len(valid_gaps), a.valid_gaps_count,
                        GapDetails(valid_gaps), "none", "analyze_paper")

\* The GapAnalysisResponse _prepare_response returns.
PrepareResponse(a, valid_gaps) ==
    GapAnalysisResponse(a.request_id, a.correlation_id, "SUCCESS",
                        a.total_gaps_identified, a.valid_gaps_count,
                        GapDetails(valid_gaps), "none", "analyze_paper")

\* The GapAnalysisResponse the except clause of analyze_paper returns.
FailedResponse(req, error) ==
    GapAnalysisResponse(req.requestId, req.correlationId, "FAILED", 0, 0,
                        <<>>, error, "analyze_paper")

\* ------------------------------------------------ the initial state
\* RateLimiter(max_calls, time_window): no call recorded, lock free.
RateLimiter(mc, tw) ==
    [max_calls |-> mc, time_window |-> tw, calls |-> <<>>, lock |-> 0]

\* A limiter no coroutine has called yet.
InitLimiterWith(mc, tw) ==
    /\ rate_limiter = RateLimiter(mc, tw)
    /\ lpc = [c \in Callers |-> "idle"]
    /\ seen = [c \in Callers |-> 0]
    /\ wake = [c \in Callers |-> 0]
    /\ recent = <<>>
    /\ waited = {}

\* No retry-wrapped operation has been called.
InitRetry ==
    /\ rpc = [o \in Ops |-> "idle"]
    /\ attempts = [o \in Ops |-> 0]
    /\ invocations = [o \in Ops |-> <<>>]
    /\ retry_result = [o \in Ops |-> None]

\* _deduplicate_results has not been called.
InitDedupIdle ==
    /\ dpc = "idle"
    /\ dedup_input = <<>>
    /\ dedup_output = <<>>
    /\ dedup_twice = <<>>

\* search_papers has not been called.
InitSearch ==
    /\ spc = "idle"
    /\ max_results = 0
    /\ ppc = [p \in ProviderIds |-> "idle"]
    /\ provider_failed = [p \in ProviderIds |-> FALSE]
    /\ results_lists = [p \in ProviderIds |-> <<>>]
    /\ all_results = <<>>
    /\ unique_results = <<>>
    /\ search_result = <<>>

\* _process_single_gap has not been called.
InitGapIdle ==
    /\ vpc = "idle"
    /\ grecord = None
    /\ trace = <<>>
    /\ caught = "none"
    /\ validate_returned = "none"
    /\ single_result = "pending"
    /\ papers_found = "none"
    /\ candidate = None

\* extract_batch has not been called.
InitExtractIdle ==
    /\ epc = "idle"
    /\ batch_papers = <<>>
    /\ gathered = <<>>
    /\ extracted_contents = None

\* The service objects as GeminiService.__init__ builds them.
InitLib ==
    /\ InitLimiterWith(GEMINI_RATE_LIMIT, GEMINI_TIME_WINDOW)
    /\ InitRetry
    /\ InitDedupIdle
    /\ InitSearch
    /\ InitGapIdle
    /\ InitExtractIdle

\* The orchestrator and the adapter before the first call.
InitProgram ==
    /\ opc = "idle"
    /\ request = None
    /\ analysis = None
    /\ fetched = None
    /\ row = None
    /\ initial_gaps = 0
    /\ gpc = [i \in Candidates |-> "unused"]
    /\ gap_record = [i \in Candidates |-> None]
    /\ gap_results = [i \in Candidates |-> Pending]
    /\ response = None
    /\ exc = "none"
    /\ outcome = "none"
    /\ calls = 0
    /\ searchClosed = FALSE
    /\ grobidClosed = FALSE
    /\ excStep = "none"
    /\ gexc = [i \in Candidates |-> {}]
    /\ apc = "idle"
    /\ body = None
    /\ areq = None
    /\ published = <<>>
    /\ pubAttempts = 0
    /\ pubFailed = FALSE
    /\ settled = "none"
    /\ propagated = FALSE
    /\ delivered = 0

Init == InitProgram /\ InitLib

\* ------------------------------------------------------ analyze_paper
callVars == <<request, calls>>
fanoutVars == <<fetched, initial_gaps, gpc, gap_record, gap_results, gexc>>
clientVars == <<searchClosed, grobidClosed>>

\* An exception raised inside the try block of analyze_paper at `step`.
Raise(step, error) ==
    /\ opc' = "except"
    /\ exc' = error
    /\ excStep' = step

\* analyze_paper(request, session) is called: analysis = None.
AnalyzePaper(req) ==
    /\ opc = "idle"
    /\ calls < MaxCalls
    /\ calls' = calls + 1
    /\ request' = req
    /\ analysis' = None
    /\ fetched' = None
    /\ row' = None
    /\ initial_gaps' = 0
    /\ gpc' = [i \in Candidates |-> "unused"]
    /\ gap_record' = [i \in Candidates |-> None]
    /\ gap_results' = [i \in Candidates |-> Pending]
    /\ gexc' = [i \in Candidates |-> {}]
    /\ response' = None
    /\ exc' = "none"
    /\ excStep' = "none"
    /\ outcome' = "none"
    /\ opc' = "create"
    /\ UNCHANGED <<clientVars, adapterVars, libVars>>

\* analysis = await self._create_gap_analysis(request, session)
\* reads request.paper_id first, then adds and commits the Run.
CreateGapAnalysis ==
    /\ opc = "create"
    /\ IF ~HasAttr(request, "paper_id")
       THEN /\ Raise("create", "AttributeError")
            /\ UNCHANGED <<analysis, row>>
       ELSE \E committed \in BOOLEAN :
              IF committed
              THEN /\ analysis' = NewGapAnalysis(request)
                   /\ row' = analysis'
                   /\ opc' = "fetch"
                   /\ UNCHANGED <<exc, excStep>>
              ELSE /\ Raise("create", "DatabaseError")
                   /\ UNCHANGED <<analysis, row>>
    /\ UNCHANGED <<callVars, fanoutVars, response, outcome, clientVars, adapterVars, libVars>>

\* The pair _fetch_paper_data returns: (None, None) when there is no such
\* paper, (paper_data, {}) when there is no such extraction, otherwise the
\* paper with its sections, figures and tables.
FetchResult(found) ==
    CASE found = "no_paper" -> [paper_data |-> "None", extracted_content |-> "None"]
      [] found = "no_extraction" -> [paper_data |-> "data", extracted_content |-> "empty"]
      [] found = "both" -> [paper_data |-> "data", extracted_content |-> "content"]

\* paper_data, extracted_content = await self._fetch_paper_data(...)
\* if not paper_data: raise ValueError("Paper not found")
FetchPaperData ==
    /\ opc = "fetch"
    /\ \E found \in {"error", "no_paper", "no_extraction", "both"} :
         IF found = "error"
         THEN /\ Raise("fetch", "DatabaseError")
              /\ UNCHANGED fetched
         ELSE /\ fetched' = FetchResult(found)
              /\ IF fetched'.paper_data = "None"
                 THEN Raise("fetch", "Paper not found")
                 ELSE /\ opc' = "generate"
                      /\ UNCHANGED <<exc, excStep>>
    /\ UNCHANGED <<callVars, analysis, row, initial_gaps, gpc, gap_record,
                   gap_results, gexc, response, outcome, clientVars, adapterVars, libVars>>

\* initial_gaps = await self.gemini_service.generate_initial_gaps(...)
\* (it returns [] on every failure of its own); an empty list raises
\* ValueError; otherwise one coroutine per candidate is built.
GenerateInitialGaps ==
    /\ opc = "generate"
    /\ \E n \in 0..MaxCandidates :
         IF n = 0
         THEN /\ Raise("generate", "No gaps could be identified")
              /\ UNCHANGED <<initial_gaps, gpc>>
         ELSE /\ initial_gaps' = n
              /\ gpc' = [i \in Candidates |-> IF i <= n THEN "pending" ELSE "unused"]
              /\ opc' = "process"
              /\ UNCHANGED <<exc, excStep>>
    /\ UNCHANGED <<callVars, analysis, row, fetched, gap_record, gap_results,
                   gexc, response, outcome, clientVars, adapterVars, libVars>>

\* ------------------------------------- batch_processor.process(tasks, ...)
Running(i) == gpc[i] \in {"create", "validate", "search", "verdict", "failopen", "expand"}

\* The batch a task is submitted in: tasks are grouped batch_size at a time.
BatchOf(i) == (i - 1) \div batch_size

\* Mutant: outcomes are appended in the order the tasks finish.
StoreResult_CompletionOrder(results, i, value) ==
    [results EXCEPT ![Cardinality({j \in Candidates : results[j] # Pending}) + 1] = value]

\* The controller stores the outcome of task i in slot i of its result list.
StoreResult(results, i, value) == [results EXCEPT ![i] = value]

\* Mutant: every task of the current batch is started at once.
StartTask_WholeBatch(i) ==
    /\ opc = "process"
    /\ gpc[i] = "pending"
    /\ \A j \in 1..(i - 1) : gpc[j] # "pending"
    /\ \A j \in 1..initial_gaps : BatchOf(j) < BatchOf(i) => gpc[j] = "done"
    /\ gpc' = [gpc EXCEPT ![i] = "create"]
    /\ UNCHANGED <<opc, callVars, analysis, row, fetched, initial_gaps, gap_record,
                   gap_results, gexc, response, exc, excStep, outcome,
                   clientVars, adapterVars, libVars>>

\* The controller starts the next submitted task: at most max_concurrent
\* tasks execute at once, and a batch starts when the batches before it
\* have finished.
StartTask(i) ==
    /\ opc = "process"
    /\ gpc[i] = "pending"
    /\ \A j \in 1..(i - 1) : gpc[j] # "pending"
    /\ Cardinality({j \in Candidates : Running(j)}) < max_concurrent
    /\ \A j \in 1..initial_gaps : BatchOf(j) < BatchOf(i) => gpc[j] = "done"
    /\ gpc' = [gpc EXCEPT ![i] = "create"]
    /\ UNCHANGED <<opc, callVars, analysis, row, fetched, initial_gaps, gap_record,
                   gap_results, gexc, response, exc, excStep, outcome,
                   clientVars, adapterVars, libVars>>

\* ------------------------------------------------- _process_single_gap
\* Mutant: the except clause hands back the gap record.
ExceptResult_ReturnsRecord(record) == record

\* except Exception as e: ... return None
ExceptResult(record) == None

\* _process_single_gap returns `value`; the controller records it.
Finish(i, value) ==
    /\ gpc' = [gpc EXCEPT ![i] = "done"]
    /\ gap_results' = StoreResult(gap_results, i, value)

\* A step of the pipeline raised: remember where.
Raised(i, step) == gexc' = [gexc EXCEPT ![i] = @ \cup {step}]

pipelineFrame == <<opc, callVars, analysis, row, fetched, initial_gaps, response, exc,
                   excStep, outcome, clientVars, adapterVars, libVars>>

\* gap_record = await self._create_gap_record(analysis_id, gap, index, session)
CreateGapRecord(i) ==
    /\ opc = "process"
    /\ gpc[i] = "create"
    /\ \E committed \in BOOLEAN :
         IF committed
         THEN /\ gap_record' = [gap_record EXCEPT ![i] = NewResearchGap(i - 1)]
              /\ gpc' = [gpc EXCEPT ![i] = "validate"]
              /\ UNCHANGED <<gap_results, gexc>>
         ELSE /\ Raised(i, "create")
              /\ Finish(i, ExceptResult(gap_record[i]))
              /\ UNCHANGED gap_record
    /\ UNCHANGED pipelineFrame

\* _validate_gap: validation_status = VALIDATING; await session.commit()
ValidateBegin(i) ==
    /\ opc = "process"
    /\ gpc[i] = "validate"
    /\ \E committed \in BOOLEAN :
         /\ gap_record' = [gap_record EXCEPT ![i] =
                             Commit([@ EXCEPT !.validation_status = "VALIDATING"],
                                    committed)]
         /\ IF committed
            THEN /\ gpc' = [gpc EXCEPT ![i] = "search"]
                 /\ UNCHANGED gexc
            ELSE /\ gpc' = [gpc EXCEPT ![i] = "failopen"]
                 /\ Raised(i, "validate")
    /\ UNCHANGED gap_results
    /\ UNCHANGED pipelineFrame

\* search_papers: each provider returns [] when its request fails, as every
\* request on a closed client does.
SearchOutcomes == IF searchClosed THEN {FALSE} ELSE BOOLEAN

\* _validate_gap: the search query and the search; with no related paper
\* the gap is VALID with confidence 0.5 and _validate_gap returns True.
ValidateSearch(i) ==
    /\ opc = "process"
    /\ gpc[i] = "search"
    /\ \E related_papers \in SearchOutcomes :
         IF related_papers
         THEN /\ gpc' = [gpc EXCEPT ![i] = "verdict"]
              /\ UNCHANGED <<gap_record, gexc>>
         ELSE \E committed \in BOOLEAN :
                /\ gap_record' = [gap_record EXCEPT ![i] =
                                    Commit([@ EXCEPT !.validation_status = "VALID",
                                                     !.validation_confidence = "0.5"],
                                           committed)]
                /\ IF committed
                   THEN /\ gpc' = [gpc EXCEPT ![i] = "expand"]
                        /\ UNCHANGED gexc
                   ELSE /\ gpc' = [gpc EXCEPT ![i] = "failopen"]
                        /\ Raised(i, "validate")
    /\ UNCHANGED gap_results
    /\ UNCHANGED pipelineFrame

\* Mutant: the MODIFIED branch is missing.
VerdictStatus_DropsModified(is_valid, should_modify) ==
    IF is_valid /\ ~should_modify THEN "VALID" ELSE "INVALID"

\* The validation_status the AI verdict leads to.
VerdictStatus(is_valid, should_modify) ==
    IF is_valid THEN (IF should_modify THEN "MODIFIED" ELSE "VALID") ELSE "INVALID"

\* _validate_gap: extraction, the AI verdict, the status it leads to and the
\* commit; INVALID makes _process_single_gap return None.
ValidateVerdict(i) ==
    /\ opc = "process"
    /\ gpc[i] = "verdict"
    /\ \E is_valid \in BOOLEAN, should_modify \in BOOLEAN, committed \in BOOLEAN :
         /\ gap_record' = [gap_record EXCEPT ![i] =
                             Commit([@ EXCEPT
                                       !.validation_status =
                                           VerdictStatus(is_valid, should_modify),
                                       !.validation_confidence = "ai"],
                                    committed)]
         /\ IF ~committed
            THEN /\ gpc' = [gpc EXCEPT ![i] = "failopen"]
                 /\ Raised(i, "validate")
                 /\ UNCHANGED gap_results
            ELSE IF is_valid
            THEN /\ gpc' = [gpc EXCEPT ![i] = "expand"]
                 /\ UNCHANGED <<gap_results, gexc>>
            ELSE /\ Finish(i, None)
                 /\ UNCHANGED gexc
    /\ UNCHANGED pipelineFrame

\* _validate_gap, except clause: VALID with confidence 0.3, commit, return
\* True; a failing commit leaves _validate_gap as an exception.
ValidateFailOpen(i) ==
    /\ opc = "process"
    /\ gpc[i] = "failopen"
    /\ \E committed \in BOOLEAN :
         /\ gap_record' = [gap_record EXCEPT ![i] =
                             Commit([@ EXCEPT !.validation_status = "VALID",
                                              !.validation_confidence = "0.3"],
                                    committed)]
         /\ IF committed
            THEN /\ gpc' = [gpc EXCEPT ![i] = "expand"]
                 /\ UNCHANGED <<gap_results, gexc>>
            ELSE /\ Raised(i, "failopen")
                 /\ Finish(i, ExceptResult(gap_record'[i]))
    /\ UNCHANGED pipelineFrame

\* _expand_gap_details logs its own exceptions; _process_single_gap then
\* returns gap_record.
ExpandGapDetails(i) ==
    /\ opc = "process"
    /\ gpc[i] = "expand"
    /\ \E expanded \in BOOLEAN :
         /\ gap_record' = [gap_record EXCEPT ![i].expanded = expanded]
         /\ IF expanded THEN UNCHANGED gexc ELSE Raised(i, "expand")
    /\ Finish(i, gap_record'[i])
    /\ UNCHANGED pipelineFrame

\* --------------------------------------- analyze_paper, after the fan-out
\* gap_results = await self.batch_processor.process(...): every task has
\* finished and the result list is handed back.
ProcessReturn ==
    /\ opc = "process"
    /\ \A i \in 1..initial_gaps : gpc[i] = "done"
    /\ opc' = "summary"
    /\ UNCHANGED <<callVars, analysis, row, fanoutVars, response, exc, excStep,
                   outcome, clientVars, adapterVars, libVars>>

\* valid_gaps = [...]; await self._update_analysis_summary(analysis,
\* len(initial_gaps), len(valid_gaps), session)
UpdateSummary ==
    /\ opc = "summary"
    /\ LET valid_gaps == FilterNotNone(ResultList(gap_results, initial_gaps))
       IN  analysis' = UpdateAnalysisSummary(analysis, initial_gaps, Len(valid_gaps))
    /\ \E committed \in BOOLEAN :
         IF committed
         THEN /\ row' = analysis'
              /\ opc' = "prepare"
              /\ UNCHANGED <<exc, excStep>>
         ELSE /\ Raise("summary", "DatabaseError")
              /\ UNCHANGED row
    /\ UNCHANGED <<callVars, fanoutVars, response, outcome, clientVars, adapterVars, libVars>>

\* response = await self._prepare_response(analysis, valid_gaps, session);
\* return response.  It queries the topics of every valid gap.
PrepareResponseStep ==
    /\ opc = "prepare"
    /\ LET valid_gaps == FilterNotNone(ResultList(gap_results, initial_gaps))
       IN  \E queried \in (IF valid_gaps = <<>> THEN {TRUE} ELSE BOOLEAN) :
             IF queried
             THEN /\ response' = PrepareResponse(analysis, valid_gaps)
                  /\ opc' = "finally"
                  /\ UNCHANGED <<exc, excStep>>
             ELSE /\ Raise("prepare", "DatabaseError")
                  /\ UNCHANGED response
    /\ UNCHANGED <<callVars, analysis, row, fanoutVars, outcome, clientVars,
                   adapterVars, libVars>>

\* except Exception as e: mark the Run FAILED when there is one, then return
\* the FAILED response built from request.request_id and
\* request.correlation_id.  Nothing guards the except clause itself.
HandleException ==
    /\ opc = "except"
    /\ opc' = "finally"
    /\ \E committed \in (IF analysis = None THEN {TRUE} ELSE BOOLEAN) :
         /\ analysis' = IF analysis = None THEN None
                        ELSE MarkAnalysisFailed(analysis, exc)
         /\ row' = IF analysis # None /\ committed THEN analysis' ELSE row
         /\ IF ~committed
            THEN /\ exc' = "DatabaseError"
                 /\ UNCHANGED response
            ELSE IF ~HasAttr(request, "request_id")
            THEN /\ exc' = "AttributeError"
                 /\ UNCHANGED response
            ELSE /\ response' = FailedResponse(request, exc)
                 /\ exc' = "none"
    /\ UNCHANGED <<callVars, fanoutVars, excStep, outcome, clientVars, adapterVars, libVars>>

\* The call ends: the fetched paper data, the tasks, gap objects and result
\* list are gone; the Run, the number of candidates generated for it and
\* the response remain.
DropLocals ==
    /\ UNCHANGED initial_gaps
    /\ fetched' = None
    /\ gpc' = [i \in Candidates |-> "unused"]
    /\ gap_record' = [i \in Candidates |-> None]
    /\ gap_results' = [i \in Candidates |-> Pending]
    /\ gexc' = [i \in Candidates |-> {}]

\* client.aclose(): the client counts as closed from the call on, whether
\* or not closing its transport raises; on a closed client it does nothing.
CloseOutcomes(alreadyClosed) == IF alreadyClosed THEN {TRUE} ELSE BOOLEAN

\* finally: await self.search_service.close().  An exception here replaces
\* the pending return value or exception and skips the second close.
CloseSearchService ==
    /\ opc = "finally"
    /\ searchClosed' = TRUE
    /\ \E closed \in CloseOutcomes(searchClosed) :
         IF closed
         THEN /\ opc' = "finally2"
              /\ UNCHANGED <<response, exc, outcome, fanoutVars>>
         ELSE /\ exc' = "CloseError"
              /\ response' = None
              /\ outcome' = "raised"
              /\ opc' = "idle"
              /\ DropLocals
    /\ UNCHANGED <<callVars, analysis, row, excStep, grobidClosed, adapterVars, libVars>>

\* finally: await self.grobid_client.close(); then the call ends with the
\* pending return value or exception.
CloseGrobidClient ==
    /\ opc = "finally2"
    /\ opc' = "idle"
    /\ grobidClosed' = TRUE
    /\ \E closed \in CloseOutcomes(grobidClosed) :
         IF closed
         THEN /\ outcome' = IF exc = "none" THEN "returned" ELSE "raised"
              /\ UNCHANGED <<response, exc>>
         ELSE /\ exc' = "CloseError"
              /\ response' = None
              /\ outcome' = "raised"
    /\ DropLocals
    /\ UNCHANGED <<callVars, analysis, row, excStep, searchClosed, adapterVars, libVars>>

\* ---------------------------------------------------- specification
Next ==
    \/ \E req \in RequestObjects : AnalyzePaper(req)
    \/ CreateGapAnalysis
    \/ FetchPaperData
    \/ GenerateInitialGaps
    \/ \E i \in Candidates : StartTask(i)
    \/ \E i \in Candidates : CreateGapRecord(i)
    \/ \E i \in Candidates : ValidateBegin(i)
    \/ \E i \in Candidates : ValidateSearch(i)
    \/ \E i \in Candidates : ValidateVerdict(i)
    \/ \E i \in Candidates : ValidateFailOpen(i)
    \/ \E i \in Candidates : ExpandGapDetails(i)
    \/ ProcessReturn
    \/ UpdateSummary
    \/ PrepareResponseStep
    \/ HandleException
    \/ CloseSearchService
    \/ CloseGrobidClient

Spec == Init /\ [][Next]_vars

\* The steps of a call in progress. asyncio resumes a coroutine once what
\* it awaits has returned or failed, and every external call is taken to
\* do one or the other: a call in progress takes its next step. Nothing
\* makes the next call of analyze_paper arrive.
StepOfCall == opc # "idle" /\ Next

SpecFair == Spec /\ WF_vars(StepOfCall)

\* ---------------------------------------------------- process_message
\* The state is the one after connect(): the channel is set and
\* process_message is the queue's consumer.

\* A delivered body: bytes that are not UTF-8, text that is not JSON, JSON
\* that is no object, or a JSON object.  An object has the four required
\* camelCase string fields or misses some; it may carry the keys
\* request_id and correlation_id, with a string or another value.
SnakeKeyValues(ids) == {"absent", "non_string"} \cup ids

Bodies ==
    { [kind |-> k, camel |-> FALSE, requestId |-> "absent",
       correlationId |-> "absent", request_id |-> "absent",
       correlation_id |-> "absent"] : k \in {"bad_utf8", "bad_json", "json_other"} }
    \cup
    { [kind |-> "json_object", camel |-> FALSE, requestId |-> "absent",
       correlationId |-> "absent", request_id |-> r, correlation_id |-> c] :
        r \in SnakeKeyValues(RequestIds), c \in SnakeKeyValues(CorrelationIds) }
    \cup
    { [kind |-> "json_object", camel |-> TRUE, requestId |-> rid,
       correlationId |-> cid, request_id |-> r, correlation_id |-> c] :
        rid \in RequestIds, cid \in CorrelationIds,
        r \in SnakeKeyValues(RequestIds), c \in SnakeKeyValues(CorrelationIds) }

\* partial_data.get(key, 'unknown')
GetOrUnknown(value) == IF value = "absent" THEN "unknown" ELSE value

\* publish_response(response): one publish on the exchange; an exception
\* of get_exchange or publish is logged, never raised.
PublishResponse(resp, delivered_ok) ==
    [attempted |-> TRUE, sent |-> delivered_ok, raised |-> FALSE, message |-> resp]

\* Mutant: no try/except around the publish, a failure is raised.
PublishErrorResponse_Unguarded(error, delivered_ok) ==
    [attempted |-> TRUE, sent |-> delivered_ok, raised |-> ~delivered_ok,
     message |-> GapAnalysisResponse("absent", "absent", "FAILED", 0, 0, <<>>,
                                     error, "_publish_error_response")]

\* _publish_error_response(original_message, error): publishes a dict with
\* status, message, error and the original text, and no ids; an exception
\* is logged, never raised.
PublishErrorResponse(error, delivered_ok) ==
    [attempted |-> TRUE, sent |-> delivered_ok, raised |-> FALSE,
     message |-> GapAnalysisResponse("absent", "absent", "FAILED", 0, 0, <<>>,
                                     error, "_publish_error_response")]

\* No publish was attempted.
NoPublish == [attempted |-> FALSE, sent |-> FALSE, raised |-> FALSE, message |-> None]

\* The effect of one publish call on the record of the current message.
Record(pub) ==
    /\ pubAttempts' = pubAttempts + (IF pub.attempted THEN 1 ELSE 0)
    /\ published' = IF pub.sent THEN Append(published, pub.message) ELSE published
    /\ pubFailed' = (pubFailed \/ (pub.attempted /\ ~pub.sent))
    /\ propagated' = pub.raised

\* The messages delivered to the consumer and not yet acknowledged or
\* rejected: the current message until message.process() settles it.
Unacked == IF delivered > 0 /\ settled = "none" THEN 1 ELSE 0

\* Mutant: no prefetch limit is set on the channel.
MayDeliver_NoPrefetch(unacked) == TRUE

\* channel.set_qos(prefetch_count=1): the broker delivers a message only
\* while fewer than prefetch_count delivered messages are unsettled.
MayDeliver(unacked) == unacked < prefetch_count

\* The transport hands a message to process_message.
Deliver(b) ==
    /\ MayDeliver(Unacked)
    /\ delivered < MaxMessages
    /\ delivered' = delivered + 1
    /\ body' = b
    /\ areq' = None
    /\ published' = <<>>
    /\ pubAttempts' = 0
    /\ pubFailed' = FALSE
    /\ settled' = "none"
    /\ propagated' = FALSE
    /\ apc' = "decode"
    /\ UNCHANGED <<orchVars, libVars>>

\* body = message.body.decode(); request_data = json.loads(body)
DecodeBody ==
    /\ apc = "decode"
    /\ apc' = CASE body.kind = "bad_utf8" -> "on_exception"
                [] body.kind = "bad_json" -> "on_json_error"
                [] OTHER -> "build"
    /\ UNCHANGED <<body, areq, published, pubAttempts, pubFailed, settled,
                   propagated, delivered, orchVars, libVars>>

\* request = GapAnalysisRequest(**request_data): TypeError when the JSON
\* is no object, ValidationError when a required field is missing.
BuildRequest ==
    /\ apc = "build"
    /\ IF body.kind = "json_object" /\ body.camel
       THEN /\ areq' = GapAnalysisRequest(body.requestId, body.correlationId)
            /\ apc' = "log_paper"
       ELSE /\ apc' = "on_exception"
            /\ UNCHANGED areq
    /\ UNCHANGED <<body, published, pubAttempts, pubFailed, settled,
                   propagated, delivered, orchVars, libVars>>

\* logger.info(f"Processing gap analysis for paper: {request.paper_id}"):
\* the request has no attribute paper_id, so the read raises and the
\* statements after it (the call of analyze_paper, publish_response, the
\* closing log line) are not reached.
LogPaperId ==
    /\ apc = "log_paper"
    /\ apc' = IF HasAttr(areq, "paper_id") THEN "call" ELSE "on_exception"
    /\ UNCHANGED <<body, areq, published, pubAttempts, pubFailed, settled,
                   propagated, delivered, orchVars, libVars>>

\* except json.JSONDecodeError: await self._publish_error_response(...)
OnJsonDecodeError ==
    /\ apc = "on_json_error"
    /\ \E delivered_ok \in BOOLEAN :
         Record(PublishErrorResponse("Invalid JSON", delivered_ok))
    /\ apc' = "exit"
    /\ UNCHANGED <<body, areq, settled, delivered, orchVars, libVars>>

\* The publish the inner try of `except Exception` gets to: none when
\* json.loads(message.body.decode()) raises again, when partial_data has
\* no get, or when GapAnalysisResponse rejects an id that is no string.
ErrorReply(b, delivered_ok) ==
    IF b.kind # "json_object" THEN NoPublish
    ELSE IF b.request_id = "non_string" \/ b.correlation_id = "non_string"
    THEN NoPublish
    ELSE PublishResponse(
           GapAnalysisResponse(GetOrUnknown(b.request_id),
                               GetOrUnknown(b.correlation_id), "FAILED", 0, 0,
                               <<>>, "Processing failed", "process_message"),
           delivered_ok)

\* except Exception: the inner try builds and publishes an error response;
\* the inner except logs whatever goes wrong in it.
OnException ==
    /\ apc = "on_exception"
    /\ \E delivered_ok \in BOOLEAN : Record(ErrorReply(body, delivered_ok))
    /\ apc' = "exit"
    /\ UNCHANGED <<body, areq, settled, delivered, orchVars, libVars>>

\* async with message.process(): the message is acknowledged when the
\* block ends normally and rejected when an exception leaves it.
Settle ==
    /\ apc = "exit"
    /\ settled' = IF propagated THEN "reject" ELSE "ack"
    /\ apc' = "idle"
    /\ UNCHANGED <<body, areq, published, pubAttempts, pubFailed, propagated,
                   delivered, orchVars, libVars>>

NextAdapter ==
    \/ \E b \in Bodies : Deliver(b)
    \/ DecodeBody
    \/ BuildRequest
    \/ LogPaperId
    \/ OnJsonDecodeError
    \/ OnException
    \/ Settle

SpecAdapter == Init /\ [][NextAdapter]_vars

\* ------------------------------------------------------- RateLimiter
\* The limiter of spec 4.1.  Time is kept as ages: each recorded call
\* carries the time since it was admitted, counted up to time_window.
outsideLimiter ==
    <<orchVars, adapterVars, retryVars, dedupVars, searchVars, gapVars, extractVars>>

\* One unit of time passes for a list of ages.
Aged(ages, tw) == [k \in 1..Len(ages) |-> IF ages[k] < tw THEN ages[k] + 1 ELSE tw]

\* Mutant: recorded calls are never dropped from the window.
LiveCalls_NeverExpire(ages, tw) == ages

\* The recorded calls that are still inside the window.
LiveCalls(ages, tw) == SelectSeq(ages, LAMBDA a : a < tw)

\* Mutant: the decision point is entered without taking the lock.
MayEnter_NoLock(limiter) == TRUE

\* The decision point is serialized: one caller at a time.
MayEnter(limiter) == limiter.lock = 0

\* A coroutine calls rate_limiter.wait_if_needed().
WaitIfNeeded(c) ==
    /\ lpc[c] = "idle"
    /\ lpc' = [lpc EXCEPT ![c] = "check"]
    /\ UNCHANGED <<rate_limiter, seen, wake, recent, waited, outsideLimiter>>

\* The caller enters the decision point and checks the window.
EnterDecision(c) ==
    /\ lpc[c] = "check"
    /\ MayEnter(rate_limiter)
    /\ LET live == LiveCalls(rate_limiter.calls, rate_limiter.time_window)
       IN  /\ rate_limiter' = [rate_limiter EXCEPT !.lock = c, !.calls = live]
           /\ seen' = [seen EXCEPT ![c] = Len(live)]
    /\ lpc' = [lpc EXCEPT ![c] = "decide"]
    /\ UNCHANGED <<wake, recent, waited, outsideLimiter>>

\* Admit or wait: with a free slot the call is recorded and the caller goes
\* on; otherwise it sleeps until the oldest recorded call leaves the window
\* and checks again.  The decision point is left either way.
Decide(c) ==
    /\ lpc[c] = "decide"
    /\ LET unlocked == IF rate_limiter.lock = c THEN 0 ELSE rate_limiter.lock
       IN  IF seen[c] < rate_limiter.max_calls
           THEN /\ rate_limiter' = [rate_limiter EXCEPT
                                      !.calls = Append(@, 0), !.lock = unlocked]
                /\ recent' = Append(recent, 0)
                /\ lpc' = [lpc EXCEPT ![c] = "done"]
                /\ UNCHANGED <<wake, waited>>
           ELSE /\ rate_limiter' = [rate_limiter EXCEPT !.lock = unlocked]
                /\ wake' = [wake EXCEPT ![c] =
                              IF rate_limiter.calls = <<>> THEN 0
                              ELSE rate_limiter.time_window - rate_limiter.calls[1]]
                /\ waited' = waited \cup {c}
                /\ lpc' = [lpc EXCEPT ![c] = "sleep"]
                /\ UNCHANGED recent
    /\ UNCHANGED <<seen, outsideLimiter>>

\* The sleep is over: the caller checks the window again.
WakeUp(c) ==
    /\ lpc[c] = "sleep"
    /\ wake[c] = 0
    /\ lpc' = [lpc EXCEPT ![c] = "check"]
    /\ UNCHANGED <<rate_limiter, seen, wake, recent, waited, outsideLimiter>>

\* One unit of time passes.
Tick ==
    /\ rate_limiter' = [rate_limiter EXCEPT !.calls = Aged(@, rate_limiter.time_window)]
    /\ recent' = SelectSeq(Aged(recent, rate_limiter.time_window),
                           LAMBDA a : a < rate_limiter.time_window)
    /\ wake' = [c \in Callers |-> IF wake[c] > 0 THEN wake[c] - 1 ELSE 0]
    /\ UNCHANGED <<lpc, seen, waited, outsideLimiter>>

InitLimiter ==
    /\ InitProgram
    /\ InitRetry
    /\ InitDedupIdle
    /\ InitSearch
    /\ InitGapIdle
    /\ InitExtractIdle
    /\ \E mc \in 1..MaxMaxCalls, tw \in 1..MaxTimeWindow : InitLimiterWith(mc, tw)

NextLimiter ==
    \/ \E c \in Callers : WaitIfNeeded(c)
    \/ \E c \in Callers : EnterDecision(c)
    \/ \E c \in Callers : Decide(c)
    \/ \E c \in Callers : WakeUp(c)
    \/ Tick

SpecLimiter == InitLimiter /\ [][NextLimiter]_vars

\* Time passes and the event loop runs every coroutine that can run.
FairLimiter ==
    /\ WF_vars(Tick)
    /\ \A c \in Callers :
         WF_vars(EnterDecision(c)) /\ WF_vars(Decide(c)) /\ WF_vars(WakeUp(c))

SpecLimiterFair == SpecLimiter /\ FairLimiter

\* ------------------------------------------------------- retry_async
\* The retry policy of spec 4.2 around an operation that may raise.
outsideRetry ==
    <<orchVars, adapterVars, limiterVars, dedupVars, searchVars, gapVars, extractVars>>

\* What invocation n of operation o produces when it succeeds, and the
\* exception it raises when it fails.
SuccessValue(o) == [value |-> o]
Failure(o, n) == [error |-> o, attempt |-> n]

\* Mutant: the attempt counter is compared with <=.
AttemptsLeft_OneMore(n) == n <= max_attempts

\* After n failed attempts another attempt is made.
AttemptsLeft(n) == n < max_attempts

\* The wrapped function is called.
RetryCall(o) ==
    /\ rpc[o] = "idle"
    /\ rpc' = [rpc EXCEPT ![o] = "attempt"]
    /\ UNCHANGED <<attempts, invocations, retry_result, outsideRetry>>

\* One attempt: the operation is invoked; its value is returned, or its
\* exception is kept and, when no attempt is left, raised to the caller.
Attempt(o) ==
    /\ rpc[o] = "attempt"
    /\ attempts' = [attempts EXCEPT ![o] = @ + 1]
    /\ \E succeeds \in BOOLEAN :
         /\ invocations' = [invocations EXCEPT ![o] = Append(@, succeeds)]
         /\ IF succeeds
            THEN /\ retry_result' = [retry_result EXCEPT ![o] = SuccessValue(o)]
                 /\ rpc' = [rpc EXCEPT ![o] = "returned"]
            ELSE IF AttemptsLeft(attempts'[o])
            THEN /\ rpc' = [rpc EXCEPT ![o] = "delay"]
                 /\ UNCHANGED retry_result
            ELSE /\ retry_result' = [retry_result EXCEPT ![o] = Failure(o, attempts'[o])]
                 /\ rpc' = [rpc EXCEPT ![o] = "raised"]
    /\ UNCHANGED outsideRetry

\* await asyncio.sleep(delay), then the next attempt.
Delay(o) ==
    /\ rpc[o] = "delay"
    /\ rpc' = [rpc EXCEPT ![o] = "attempt"]
    /\ UNCHANGED <<attempts, invocations, retry_result, outsideRetry>>

InitRetrySpec ==
    /\ InitProgram
    /\ InitLimiterWith(GEMINI_RATE_LIMIT, GEMINI_TIME_WINDOW)
    /\ InitRetry
    /\ InitDedupIdle
    /\ InitSearch
    /\ InitGapIdle
    /\ InitExtractIdle

NextRetry ==
    \/ \E o \in Ops : RetryCall(o)
    \/ \E o \in Ops : Attempt(o)
    \/ \E o \in Ops : Delay(o)

SpecRetry == InitRetrySpec /\ [][NextRetry]_vars

\* ----------------------------------------------- _deduplicate_results
\* A title as a provider delivers it: the words it is made of and the way
\* it is written (case, punctuation, spacing).
Words == 1..6
TitleWords == {{}, {1, 2, 3, 4}, {1, 2, 3, 4, 5}, {1, 2, 3, 4, 5, 6}, {2, 3, 4, 5, 6}}
RawTitles ==
    {[words |-> w, written |-> "plain"] : w \in TitleWords}
    \cup {[words |-> {1, 2, 3, 4}, written |-> "Upper, punctuated"]}

\* A PaperSearchResult: its title, the other fields left out.
PaperSearchResults == {[title |-> t] : t \in RawTitles}

\* clean_text(title).lower(): the case-folded words without punctuation
\* and surplus whitespace; the way the title was written is gone.
NormalizedTitle(title) == title.words

\* calculate_similarity: the Jaccard index of the two word sets, as the
\* fraction <<numerator, denominator>>; identical titles have similarity 1.
CalculateSimilarity(a, b) ==
    IF a = b THEN <<1, 1>>
    ELSE <<Cardinality(a \cap b), Cardinality(a \cup b)>>

\* Mutant: a similarity of exactly 0.8 counts as a duplicate.
ExceedsThreshold_Inclusive(similarity) ==
    10 * similarity[1] >= DUPLICATE_THRESHOLD_TENTHS * similarity[2]

\* if similarity > 0.8
ExceedsThreshold(similarity) ==
    10 * similarity[1] > DUPLICATE_THRESHOLD_TENTHS * similarity[2]

\* The inner loop: the result is a duplicate of some result kept so far.
IsDuplicate(result, unique) ==
    \E k \in 1..Len(unique) :
        ExceedsThreshold(CalculateSimilarity(NormalizedTitle(result.title),
                                             NormalizedTitle(unique[k].title)))

\* Mutant: a duplicate replaces the result it duplicates.
Accept_KeepNewest(unique, result) ==
    IF IsDuplicate(result, unique)
    THEN LET k == CHOOSE k \in 1..Len(unique) :
                    /\ IsDuplicate(result, <<unique[k]>>)
                    /\ \A j \in 1..(k - 1) : ~IsDuplicate(result, <<unique[j]>>)
         IN  [unique EXCEPT ![k] = result]
    ELSE Append(unique, result)

\* if not is_duplicate: unique.append(result)
Accept(unique, result) ==
    IF IsDuplicate(result, unique) THEN unique
    ELSE Append(unique, result)

\* The outer loop over the results, in order.
RECURSIVE DeduplicateFrom(_, _)
DeduplicateFrom(results, unique) ==
    IF results = <<>> THEN unique
    ELSE DeduplicateFrom(Tail(results), Accept(unique, Head(results)))

\* _deduplicate_results(results)
DeduplicateResults(results) == DeduplicateFrom(results, <<>>)

outsideDedup ==
    <<orchVars, adapterVars, limiterVars, retryVars, searchVars, gapVars, extractVars>>

\* The lists of at most n results.
ResultLists(n) == UNION {[1..k -> PaperSearchResults] : k \in 0..n}

\* unique = self._deduplicate_results(results)
Deduplicate ==
    /\ dpc = "called"
    /\ dedup_output' = DeduplicateResults(dedup_input)
    /\ dpc' = "returned"
    /\ UNCHANGED <<dedup_input, dedup_twice, outsideDedup>>

\* self._deduplicate_results(unique)
DeduplicateAgain ==
    /\ dpc = "returned"
    /\ dedup_twice' = DeduplicateResults(dedup_output)
    /\ dpc' = "returned_twice"
    /\ UNCHANGED <<dedup_input, dedup_output, outsideDedup>>

InitDedup ==
    /\ InitProgram
    /\ InitLimiterWith(GEMINI_RATE_LIMIT, GEMINI_TIME_WINDOW)
    /\ InitRetry
    /\ InitSearch
    /\ InitGapIdle
    /\ InitExtractIdle
    /\ dpc = "called"
    /\ dedup_input \in ResultLists(MaxLen)
    /\ dedup_output = <<>>
    /\ dedup_twice = <<>>

NextDedup == Deduplicate \/ DeduplicateAgain

SpecDedup == InitDedup /\ [][NextDedup]_vars

\* ------------------------------------------------------ search_papers
outsideSearch ==
    <<orchVars, adapterVars, limiterVars, retryVars, dedupVars, gapVars, extractVars>>

\* The results a provider's API delivers for a query.
ProviderPool ==
    {[title |-> [words |-> w, written |-> "plain"]] :
        w \in {{1, 2, 3, 4, 5}, {1, 2, 3, 4, 5, 6}, {2, 3, 4, 5, 6}}}
ProviderLists == UNION {[1..k -> ProviderPool] : k \in 0..MaxProviderResults}

\* search_papers(query, max_results): the three provider searches are
\* built and handed to asyncio.gather.
SearchPapers(limit) ==
    /\ spc \in {"idle", "returned"}
    /\ spc' = "gather"
    /\ max_results' = limit
    /\ ppc' = [p \in ProviderIds |-> "running"]
    /\ provider_failed' = [p \in ProviderIds |-> FALSE]
    /\ results_lists' = [p \in ProviderIds |-> <<>>]
    /\ all_results' = <<>>
    /\ unique_results' = <<>>
    /\ search_result' = <<>>
    /\ UNCHANGED outsideSearch

\* What a provider's search returns: the parsed results, or [] when the
\* request raised or the status was not 200 (except Exception: return []).
ProviderReturn(failed, results) == IF failed THEN <<>> ELSE results

\* _search_semantic_scholar, _search_crossref, _search_arxiv: one provider
\* answers or fails; the others go on.
ProviderSearch(p) ==
    /\ spc = "gather"
    /\ ppc[p] = "running"
    /\ \E failed \in BOOLEAN, results \in ProviderLists :
         /\ (failed => results = <<>>)
         /\ provider_failed' = [provider_failed EXCEPT ![p] = failed]
         /\ results_lists' = [results_lists EXCEPT ![p] = ProviderReturn(failed, results)]
    /\ ppc' = [ppc EXCEPT ![p] = "done"]
    /\ UNCHANGED <<spc, max_results, all_results, unique_results, search_result,
                   outsideSearch>>

\* Mutant: each list replaces all_results instead of extending it.
MergeResults_Overwrites(lists) == lists[Len(Providers)]

\* for results in results_lists: all_results.extend(results), in the
\* order of the tasks.
MergeResults(lists) == lists[1] \o lists[2] \o lists[3]

\* unique_results[:max_results]
Truncate(results, limit) ==
    IF Len(results) <= limit THEN results ELSE SubSeq(results, 1, limit)

\* Mutant: the merged list is cut to max_results before deduplication.
GatherAndReturn_TruncatesFirst ==
    /\ spc = "gather"
    /\ \A p \in ProviderIds : ppc[p] = "done"
    /\ all_results' = MergeResults(results_lists)
    /\ unique_results' = DeduplicateResults(Truncate(all_results', max_results))
    /\ search_result' = unique_results'
    /\ spc' = "returned"
    /\ UNCHANGED <<max_results, ppc, provider_failed, results_lists, outsideSearch>>

\* gather has every provider's outcome: merge, deduplicate, return the
\* first max_results.
GatherAndReturn ==
    /\ spc = "gather"
    /\ \A p \in ProviderIds : ppc[p] = "done"
    /\ all_results' = MergeResults(results_lists)
    /\ unique_results' = DeduplicateResults(all_results')
    /\ search_result' = Truncate(unique_results', max_results)
    /\ spc' = "returned"
    /\ UNCHANGED <<max_results, ppc, provider_failed, results_lists, outsideSearch>>

InitSearchSpec ==
    /\ InitProgram
    /\ InitLimiterWith(GEMINI_RATE_LIMIT, GEMINI_TIME_WINDOW)
    /\ InitRetry
    /\ InitDedupIdle
    /\ InitSearch
    /\ InitGapIdle
    /\ InitExtractIdle

NextSearch ==
    \/ \E limit \in 1..MaxMaxResults : SearchPapers(limit)
    \/ \E p \in ProviderIds : ProviderSearch(p)
    \/ GatherAndReturn

SpecSearch == InitSearchSpec /\ [][NextSearch]_vars

\* ------------------------------------- one pipeline, field by field
\* One Run with one candidate: generate_initial_gaps, then
\* _process_single_gap with every field _validate_gap writes and every
\* call it makes on the AI provider, the rate limiter, the search service
\* and the extraction client.
outsideGap ==
    <<orchVars, adapterVars, limiterVars, retryVars, dedupVars, searchVars, extractVars>>

\* The candidates generate_initial_gaps may return.
InitialGaps ==
    { [name |-> "name1", description |-> "original1", category |-> "theoretical"],
      [name |-> "name2", description |-> "original2", category |-> "empirical"] }

\* ResearchGap(...) in _create_gap_record, with the fields validation writes.
NewGapRecord(gap) ==
    [validation_status |-> "INITIAL", validation_confidence |-> "none",
     validation_reasoning |-> None, validation_query |-> None,
     description |-> gap.description, modification_history |-> <<>>,
     enrichment |-> None, expanded |-> FALSE]

\* The GeminiService methods that await self.rate_limiter.wait_if_needed()
\* before their request; generate_search_query does not.
RateLimited(method) ==
    method \in {"generate_initial_gaps", "validate_gap", "expand_gap_details"}

\* The events one GeminiService method adds to the trace: the acquisition
\* on self.rate_limiter when it makes one, then its generate_content
\* request, which succeeds or raises.
GeminiCall(method, ok) ==
    IF RateLimited(method)
    THEN <<[event |-> "wait_if_needed", arg |-> method, raised |-> FALSE],
           [event |-> "generate_content", arg |-> method, raised |-> ~ok]>>
    ELSE <<[event |-> "generate_content", arg |-> method, raised |-> ~ok]>>

\* Whether the body of a @retry_async method raises to the wrapper when its
\* request failed: generate_initial_gaps, validate_gap and
\* expand_gap_details each catch Exception around their whole body and
\* return their default, so the wrapper is handed a return value.
BodyRaises(method, ok) == FALSE

\* @retry_async(max_attempts=3) around a GeminiService method: the events
\* of invocation n, and of the next invocation when this one raised and an
\* attempt is left.
RECURSIVE Retried(_, _, _)
Retried(method, ok, n) ==
    GeminiCall(method, ok) \o
        (IF BodyRaises(method, ok) /\ AttemptsLeft(n)
         THEN Retried(method, ok, n + 1)
         ELSE <<>>)

\* A call on the search service or the extraction client.
ServiceCall(name, arg) == <<[event |-> name, arg |-> arg, raised |-> FALSE]>>

\* return f"{gap.name} {gap.category}"
FallbackQuery(gap) == [name |-> gap.name, category |-> gap.category]

\* Mutant: generate_search_query lets its exception through.
GenerateSearchQuery_Propagates(gap, ok) ==
    IF ok THEN [query |-> [text |-> "ai query"], raised |-> FALSE]
    ELSE [query |-> None, raised |-> TRUE]

\* generate_search_query(gap): the model's text, or the fallback query when
\* anything in it raises; it never raises itself.
GenerateSearchQuery(gap, ok) ==
    IF ok THEN [query |-> [text |-> "ai query"], raised |-> FALSE]
    ELSE [query |-> FallbackQuery(gap), raised |-> FALSE]

\* What GeminiService.validate_gap returns: the model's verdict, or, when
\* anything in it raises, the default verdict of its except clause.
DefaultValidation ==
    [is_valid |-> TRUE, confidence |-> "0.3",
     reasoning |-> [text |-> "Could not validate due to error"],
     should_modify |-> FALSE, modification_suggestion |-> "none"]

ModelValidations ==
    { [is_valid |-> v, confidence |-> "ai", reasoning |-> [text |-> "ai"],
       should_modify |-> m, modification_suggestion |-> s] :
        v \in BOOLEAN, m \in BOOLEAN, s \in {"none", "suggestion"} }

ValidationResults == ModelValidations \cup {DefaultValidation}

\* _validate_gap, "Update gap record based on validation": confidence,
\* reasoning and status; for MODIFIED the history entry, and the
\* description when the suggestion is not empty.
ApplyValidation(rec, gap, validation_result) ==
    LET status == VerdictStatus(validation_result.is_valid,
                                validation_result.should_modify)
    IN  [rec EXCEPT
           !.validation_confidence = validation_result.confidence,
           !.validation_reasoning = validation_result.reasoning,
           !.validation_status = status,
           !.modification_history =
               IF status = "MODIFIED"
               THEN <<[original |-> gap.description,
                       modification |-> validation_result.modification_suggestion]>>
               ELSE @,
           !.description =
               IF status = "MODIFIED" /\ validation_result.modification_suggestion # "none"
               THEN validation_result.modification_suggestion
               ELSE @]

\* _validate_gap, except clause: VALID, 0.3, f"Validation error: {str(e)}".
FailOpenRecord(rec, error) ==
    [rec EXCEPT !.validation_status = "VALID",
                !.validation_confidence = "0.3",
                !.validation_reasoning = [text |-> "Validation error", error |-> error]]

\* An exception inside the try block of _validate_gap.
GapRaise(error) ==
    /\ vpc' = "failopen"
    /\ caught' = error

\* _validate_gap returns: True goes on to the expansion, False ends
\* _process_single_gap with None.
GapReturn(value) ==
    /\ validate_returned' = IF value THEN "True" ELSE "False"
    /\ IF value
       THEN vpc' = "expand" /\ UNCHANGED single_result
       ELSE vpc' = "returned" /\ single_result' = "None"

\* A Run starts: generate_initial_gaps returns the candidate.
GapGenerateInitialGaps ==
    /\ vpc \in {"idle", "returned"}
    /\ trace' = Retried("generate_initial_gaps", TRUE, 1)
    /\ grecord' = None
    /\ caught' = "none"
    /\ validate_returned' = "none"
    /\ single_result' = "pending"
    /\ papers_found' = "none"
    /\ candidate' \in InitialGaps
    /\ vpc' = "create"
    /\ UNCHANGED outsideGap

\* _process_single_gap: gap_record = await self._create_gap_record(...);
\* its exception reaches the except clause, which returns None.
GapCreateRecord ==
    /\ vpc = "create"
    /\ \E committed \in BOOLEAN :
         IF committed
         THEN /\ grecord' = NewGapRecord(candidate)
              /\ vpc' = "validating"
              /\ UNCHANGED single_result
         ELSE /\ single_result' = "None"
              /\ vpc' = "returned"
              /\ UNCHANGED grecord
    /\ UNCHANGED <<trace, caught, validate_returned, papers_found, candidate, outsideGap>>

\* _validate_gap: validation_status = VALIDATING; await session.commit()
GapSetValidating ==
    /\ vpc = "validating"
    /\ grecord' = [grecord EXCEPT !.validation_status = "VALIDATING"]
    /\ \E committed \in BOOLEAN :
         IF committed
         THEN vpc' = "query" /\ UNCHANGED caught
         ELSE GapRaise("DatabaseError")
    /\ UNCHANGED <<trace, validate_returned, single_result, papers_found, candidate, outsideGap>>

\* search_query = await self.gemini_service.generate_search_query(gap);
\* gap_record.validation_query = search_query
GapGenerateSearchQuery ==
    /\ vpc = "query"
    /\ \E ok \in BOOLEAN :
         LET generated == GenerateSearchQuery(candidate, ok)
         IN  /\ trace' = trace \o GeminiCall("generate_search_query", ok)
             /\ IF generated.raised
                THEN GapRaise("QueryError") /\ UNCHANGED grecord
                ELSE /\ grecord' = [grecord EXCEPT !.validation_query = generated.query]
                     /\ vpc' = "search"
                     /\ UNCHANGED caught
    /\ UNCHANGED <<validate_returned, single_result, papers_found, candidate, outsideGap>>

\* related_papers = await self.search_service.search_papers(search_query,
\* max_results=10); with no related paper: VALID, 0.5, commit, return True.
GapSearchPapers ==
    /\ vpc = "search"
    /\ trace' = trace \o ServiceCall("search_papers", grecord.validation_query)
    /\ \E related_papers \in BOOLEAN :
         /\ papers_found' = IF related_papers THEN "some" ELSE "zero"
         /\ IF related_papers
            THEN /\ vpc' = "verdict"
                 /\ UNCHANGED <<grecord, caught, validate_returned, single_result>>
            ELSE /\ grecord' = [grecord EXCEPT !.validation_status = "VALID",
                                             !.validation_confidence = "0.5"]
                 /\ \E committed \in BOOLEAN :
                      IF committed
                      THEN GapReturn(TRUE) /\ UNCHANGED caught
                      ELSE GapRaise("DatabaseError")
                           /\ UNCHANGED <<validate_returned, single_result>>
    /\ UNCHANGED <<candidate, outsideGap>>

\* extract_batch, validate_gap, the update of the record and the commit.
GapVerdict ==
    /\ vpc = "verdict"
    /\ \E validation_result \in ValidationResults, committed \in BOOLEAN :
         /\ trace' = trace \o ServiceCall("extract_batch", "related_papers")
                           \o Retried("validate_gap",
                                       validation_result # DefaultValidation, 1)
         /\ grecord' = ApplyValidation(grecord, candidate, validation_result)
         /\ IF committed
            THEN GapReturn(validation_result.is_valid) /\ UNCHANGED caught
            ELSE GapRaise("DatabaseError") /\ UNCHANGED <<validate_returned, single_result>>
    /\ UNCHANGED <<papers_found, candidate, outsideGap>>

\* _validate_gap, except clause; a failing commit in it leaves
\* _validate_gap and _process_single_gap returns None.
GapFailOpen ==
    /\ vpc = "failopen"
    /\ grecord' = FailOpenRecord(grecord, caught)
    /\ \E committed \in BOOLEAN :
         IF committed
         THEN GapReturn(TRUE)
         ELSE /\ single_result' = "None"
              /\ vpc' = "returned"
              /\ UNCHANGED validate_returned
    /\ UNCHANGED <<trace, caught, papers_found, candidate, outsideGap>>

\* The dict the except clause of expand_gap_details returns, and the dict
\* parsed from the model's answer; an answer that is not JSON parses to {},
\* whose .get() leaves every field None.
DefaultDetails ==
    [potential_impact |-> "Unable to generate impact analysis",
     estimated_difficulty |-> "unknown", suggested_topics |-> <<>>]
ModelDetails ==
    [potential_impact |-> "ai", estimated_difficulty |-> "ai",
     suggested_topics |-> <<"ai topic">>]
EmptyDetails ==
    [potential_impact |-> None, estimated_difficulty |-> None,
     suggested_topics |-> <<>>]

\* The validation argument _expand_gap_details builds: a dict with the
\* keys confidence and reasoning.
ValidationContext == [type |-> "dict", keys |-> {"confidence", "reasoning"}]

\* {validation.confidence} in the prompt of expand_gap_details reads an
\* attribute: a ValidationResult has it, a dict does not.
HasAttribute(validation, attribute) ==
    validation.type = "ValidationResult" /\ attribute \in validation.keys

\* How the model would answer the expansion request.
Answers == {"json", "not json", "raises"}

\* GeminiService.expand_gap_details(gap, validation): the acquisition,
\* then the prompt; when building the prompt raises, or the request does,
\* the except clause returns the default details.
ExpandDetails(validation, answer) ==
    IF ~HasAttribute(validation, "confidence")
    THEN [events |-> <<[event |-> "wait_if_needed", arg |-> "expand_gap_details",
                        raised |-> FALSE]>>,
          details |-> DefaultDetails]
    ELSE [events |-> Retried("expand_gap_details", answer # "raises", 1),
          details |-> CASE answer = "json" -> ModelDetails
                        [] answer = "not json" -> EmptyDetails
                        [] OTHER -> DefaultDetails]

\* _expand_gap_details: the details of expand_gap_details are written to
\* the record and committed; an exception is logged.
\* _process_single_gap then returns gap_record.
GapExpand ==
    /\ vpc = "expand"
    /\ \E answer \in Answers, committed \in BOOLEAN :
         LET expanded_details == ExpandDetails(ValidationContext, answer)
         IN  /\ trace' = trace \o expanded_details.events
             /\ grecord' = [grecord EXCEPT !.enrichment = expanded_details.details,
                                           !.expanded = committed]
    /\ single_result' = "gap_record"
    /\ vpc' = "returned"
    /\ UNCHANGED <<caught, validate_returned, papers_found, candidate, outsideGap>>

InitGap ==
    /\ InitProgram
    /\ InitLimiterWith(GEMINI_RATE_LIMIT, GEMINI_TIME_WINDOW)
    /\ InitRetry
    /\ InitDedupIdle
    /\ InitSearch
    /\ InitGapIdle
    /\ InitExtractIdle

NextGap ==
    \/ GapGenerateInitialGaps
    \/ GapCreateRecord
    \/ GapSetValidating
    \/ GapGenerateSearchQuery
    \/ GapSearchPapers
    \/ GapVerdict
    \/ GapFailOpen
    \/ GapExpand

SpecGap == InitGap /\ [][NextGap]_vars

\* ------------------------------------------------------ extract_batch
\* GrobidClient.extract_batch over the related papers of one gap: one task
\* per paper, all awaited together, their results collected in the order
\* of the tasks. The tasks finish in any order.
outsideExtract ==
    <<orchVars, adapterVars, limiterVars, retryVars, dedupVars, searchVars, gapVars>>

\* The title of paper i, and the titles an extraction carries.
PaperTitle(i) == <<"paper", i>>
TeiTitle == <<"tei">>
EmptyTitle == <<>>

\* pdf_url of a PaperSearchResult: absent, empty, or a URL.
PdfUrls == {None, [url |-> ""], [url |-> "pdf"]}

\* The lists of related papers extract_batch is called with.
PaperLists ==
    UNION { [1..n -> PdfUrls] : n \in 0..MaxPapers }

\* if paper.pdf_url:
HasPdfUrl(pdf_url) == pdf_url # None /\ pdf_url # [url |-> ""]

\* How extract_from_url ends: with the parsed document, or with one of its
\* failures (download, GROBID status, GROBID call, TEI parsing), each of
\* which it turns into a failed ExtractedContent.
Fates == {"extracted", "Failed to download PDF", "GROBID error",
          "XML parsing error", "request error"}

\* An ExtractedContent; `task` is the position of the task that built it
\* (not a field of the class, kept to tell the entries apart).
ExtractedContent(title, extraction_success, error, task) ==
    [title |-> title, extraction_success |-> extraction_success,
     error |-> error, task |-> task]

\* _create_extraction_from_metadata(paper)
CreateExtractionFromMetadata(i) ==
    ExtractedContent(PaperTitle(i), FALSE, [text |-> "No PDF available"], i)

\* extract_from_url(paper.pdf_url)
ExtractFromUrl(fate, i) ==
    IF fate = "extracted"
    THEN ExtractedContent(TeiTitle, TRUE, None, i)
    ELSE ExtractedContent(EmptyTitle, FALSE, [text |-> fate], i)

\* isinstance(result, ExtractedContent) / isinstance(result, Exception)
IsExtractedContent(result) == "extraction_success" \in DOMAIN result
IsException(result) == "exception" \in DOMAIN result

\* The loop over enumerate(results), from position i on.
RECURSIVE CollectFrom(_, _)
CollectFrom(results, i) ==
    IF i > Len(results) THEN <<>>
    ELSE (IF IsExtractedContent(results[i])
          THEN <<results[i]>>
          ELSE IF IsException(results[i])
          THEN <<ExtractedContent(PaperTitle(i), FALSE,
                                  [text |-> results[i].exception], i)>>
          ELSE <<>>)
         \o CollectFrom(results, i + 1)

\* Mutant: only the successful extractions are collected.
CollectResults_OnlySuccessful(results) ==
    SelectSeq(results, LAMBDA r : IsExtractedContent(r) /\ r.extraction_success)

\* extracted_contents as the loop builds it from the gathered results.
CollectResults(results) == CollectFrom(results, 1)

\* extract_batch(papers): the tasks are built and gathered.
ExtractBatch(papers) ==
    /\ epc = "idle"
    /\ batch_papers' = papers
    /\ gathered' = [i \in 1..Len(papers) |-> None]
    /\ epc' = "gather"
    /\ UNCHANGED <<extracted_contents, outsideExtract>>

\* The task of paper i finishes: extract_from_url for a paper with a PDF
\* URL, _create_extraction_from_metadata for one without.
TaskCompletes(i) ==
    /\ epc = "gather"
    /\ i \in 1..Len(batch_papers)
    /\ gathered[i] = None
    /\ \E fate \in Fates :
         gathered' = [gathered EXCEPT ![i] =
                        IF HasPdfUrl(batch_papers[i])
                        THEN ExtractFromUrl(fate, i)
                        ELSE CreateExtractionFromMetadata(i)]
    /\ UNCHANGED <<epc, batch_papers, extracted_contents, outsideExtract>>

\* gather returns once every task has finished; the loop builds the list
\* and extract_batch returns it.
CollectAndReturn ==
    /\ epc = "gather"
    /\ \A i \in 1..Len(batch_papers) : gathered[i] # None
    /\ extracted_contents' = CollectResults(gathered)
    /\ epc' = "returned"
    /\ UNCHANGED <<batch_papers, gathered, outsideExtract>>

InitExtract ==
    /\ InitProgram
    /\ InitLimiterWith(GEMINI_RATE_LIMIT, GEMINI_TIME_WINDOW)
    /\ InitRetry
    /\ InitDedupIdle
    /\ InitSearch
    /\ InitGapIdle
    /\ InitExtractIdle

NextExtract ==
    \/ \E papers \in PaperLists : ExtractBatch(papers)
    \/ \E i \in 1..MaxPapers : TaskCompletes(i)
    \/ CollectAndReturn

SpecExtract == InitExtract /\ [][NextExtract]_vars

\* ================================================================ claims
\* process_message has returned for the current message.
Handled == apc = "idle" /\ settled # "none"

\* analyze_paper has ended (returned or raised).
Ended == opc = "idle" /\ outcome # "none"

\* The try statement of analyze_paper is over (the finally block runs or
\* the call has ended): the Run's status is final, and an exception still
\* in flight leaves the call.
Decided == opc \in {"finally", "finally2"} \/ Ended

\* C1: every message handed to process_message gets exactly one published
\* response when no publish fails, never zero and never two.
C1_ExactlyOneResponse ==
    (Handled /\ ~pubFailed) => Len(published) = 1

\* C2: analyze_paper never raises: every call ends by returning a response,
\* and when an exception reached its except clause that response is FAILED
\* and carries an error text.
C2_NeverRaises ==
    /\ Decided =>
          /\ exc = "none"
          /\ response # None
          /\ (excStep # "none" =>
                response.status = "FAILED" /\ response.error # "none")
    /\ Ended => outcome = "returned"

\* C3: for a message that decodes into a request, the Orchestrator is
\* invoked and the one response published is the one it returned, with the
\* request's requestId and correlationId.
C3_PublishesOrchestratorResponse ==
    (Handled /\ areq # None /\ ~pubFailed) =>
        /\ Len(published) = 1
        /\ published[1].origin = "analyze_paper"
        /\ published[1].request_id = areq.requestId
        /\ published[1].correlation_id = areq.correlationId

\* C4: no exception leaves process_message, every handled message is
\* acknowledged (never rejected or requeued), and at most one publish is
\* attempted for it, so a failed publish is not attempted again.
C4_AlwaysAcknowledged ==
    /\ ~propagated
    /\ settled \in {"none", "ack"}
    /\ pubAttempts <= 1
    /\ (apc = "idle" /\ delivered > 0 => settled = "ack")

\* C4 witness: a message whose publish failed was acknowledged.
C4_Witness == Handled /\ settled = "ack" /\ pubFailed /\ pubAttempts = 1

Terminal(run) == run # None /\ run.status \in {"COMPLETED", "FAILED"}

\* C5: once the stored Run has status COMPLETED or FAILED, no later step of
\* the same call of analyze_paper changes that status.
C5_TerminalStatusSetOnce ==
    [][ (Terminal(row) /\ row' # None) => row'.status = row.status ]_vars

\* C6: when the try statement of analyze_paper is over for a Run that was
\* created, the Run is COMPLETED or FAILED, and it is FAILED exactly when an
\* exception was raised before aggregation (Run setup, paper fetch,
\* candidate generation).
C6_FailedIffEarlyException ==
    (Decided /\ analysis # None) =>
        /\ analysis.status \in {"COMPLETED", "FAILED"}
        /\ (analysis.status = "FAILED" <=> excStep \in {"create", "fetch", "generate"})

CountsAddUp(run) ==
    run.valid_gaps_count + run.invalid_gaps_count = run.total_gaps_identified

\* C7: whenever a Run (the object or the stored Run) has status COMPLETED,
\* valid_gaps_count + invalid_gaps_count = total_gaps_identified.
C7_CompletedCountsAddUp ==
    /\ (analysis # None /\ analysis.status = "COMPLETED" => CountsAddUp(analysis))
    /\ (row # None /\ row.status = "COMPLETED" => CountsAddUp(row))

\* C7 witness: a stored COMPLETED Run with valid and invalid gaps.
C7_Witness ==
    /\ row # None
    /\ row.status = "COMPLETED"
    /\ row.valid_gaps_count > 0
    /\ row.invalid_gaps_count > 0

\* C8: every SUCCESS response has total_gaps equal to the number of
\* candidates generated and 0 <= valid_gaps <= total_gaps.
C8_SuccessCounts ==
    (response # None /\ response.status = "SUCCESS") =>
        /\ response.total_gaps = initial_gaps
        /\ 0 <= response.valid_gaps
        /\ response.valid_gaps <= response.total_gaps

\* C8 witness: a returned SUCCESS response with some but not all gaps valid.
C8_Witness ==
    /\ Ended
    /\ outcome = "returned"
    /\ response.status = "SUCCESS"
    /\ 0 < response.valid_gaps
    /\ response.valid_gaps < response.total_gaps

\* The exceptions that leave _validate_gap or precede it: they reach the
\* except clause of _process_single_gap.
Escaped(i) == gexc[i] \cap {"create", "failopen"} # {}

\* C9 as stated: every exception in a candidate's pipeline (create,
\* validate, expand) makes that candidate's result null.
C9_AnyExceptionDropsGap ==
    \A i \in Candidates :
        (gpc[i] = "done" /\ gexc[i] # {}) => gap_results[i] = None

\* C9 amended: an exception that reaches the except clause of
\* _process_single_gap (creating the record, or the commit of the fail-open
\* handler) makes that candidate's result null; an exception handled inside
\* validation or expansion leaves it the gap record; a result is null only
\* for such an exception or an INVALID verdict of the same candidate; the
\* Run is set COMPLETED once the fan-out has returned; and a Run is FAILED
\* only through an exception of the Orchestrator's own steps.
C9_PipelineFailureIsolated ==
    /\ \A i \in Candidates :
         gpc[i] = "done" =>
            /\ (Escaped(i) => gap_results[i] = None)
            /\ (gexc[i] # {} /\ ~Escaped(i) => gap_results[i] = gap_record[i])
            /\ (gap_results[i] = None =>
                   \/ Escaped(i)
                   \/ gap_record[i].validation_status = "INVALID")
    /\ (opc = "prepare" \/ (opc = "except" /\ excStep \in {"summary", "prepare"})
           => analysis.status = "COMPLETED")
    /\ (analysis # None /\ analysis.status = "FAILED" =>
           excStep \in {"fetch", "generate", "summary", "prepare"})

\* C9 witness: in a COMPLETED Run one candidate was dropped by an exception
\* of its fail-open commit, another failed in validation and was kept, and
\* a third ran without any exception.
C9_Witness ==
    /\ analysis # None
    /\ analysis.status = "COMPLETED"
    /\ \E i, j, k \in 1..initial_gaps :
         /\ gpc[i] = "done" /\ "failopen" \in gexc[i] /\ gap_results[i] = None
         /\ gpc[j] = "done" /\ gexc[j] = {"validate"} /\ gap_results[j] # None
         /\ gpc[k] = "done" /\ gexc[k] = {} /\ gap_results[k] # None

\* The outcome of task i: null, or the gap record created with its index.
TaskOutcome(i) ==
    IF Escaped(i) THEN None
    ELSE IF gap_record[i].validation_status = "INVALID" THEN None
    ELSE gap_record[i]

\* C10: the result list has one entry per submitted task, in submission
\* order: slot i holds the outcome of task i (null or the record with order
\* index i - 1) whatever the order in which the tasks finished, and slots
\* of unfinished tasks are untouched.
C10_ResultsInSubmissionOrder ==
    \A i \in Candidates :
        /\ (gpc[i] = "done" =>
              /\ gap_results[i] = TaskOutcome(i)
              /\ (gap_results[i] # None => gap_results[i].order_index = i - 1))
        /\ (gpc[i] # "done" => gap_results[i] = Pending)

\* C10 witness: two later tasks have finished, the first with a null
\* result and the second with its record, while an earlier task still runs.
C10_Witness ==
    \E i, j, k \in 1..initial_gaps :
        /\ i < j /\ j < k
        /\ Running(i)
        /\ gpc[j] = "done" /\ gap_results[j] = None
        /\ gpc[k] = "done" /\ gap_results[k] = gap_record[k]

C18_NoCandidatesFailsRun ==
    (Decided /\ excStep = "generate") =>
        /\ analysis.status = "FAILED"
        /\ response # None
        /\ response.status = "FAILED"
        /\ response.total_gaps = 0
        /\ response.valid_gaps = 0
        /\ response.error = "No gaps could be identified"
        /\ \A i \in Candidates : gpc[i] = "unused" /\ gap_record[i] = None

\* _validate_gap returned for candidate i with status VALID (no exception
\* left it).
ValidatedValid(i) ==
    /\ gap_record[i] # None
    /\ gap_record[i].validation_status = "VALID"
    /\ ~Escaped(i)

\* The order indexes of the entries of a gaps list.
StrictlyIncreasing(gaps) ==
    \A k \in 1..(Len(gaps) - 1) : gaps[k].order_index < gaps[k + 1].order_index

\* C19: in every SUCCESS response the gaps list has exactly valid_gaps
\* entries, every entry is VALID or MODIFIED, and the entries are in
\* candidate order (strictly increasing order index); when every candidate
\* was validated VALID, total_gaps, valid_gaps and the number of entries all
\* equal the number of candidates.
C19_ReportHoldsValidGapsInOrder ==
    (response # None /\ response.status = "SUCCESS") =>
        /\ Len(response.gaps) = response.valid_gaps
        /\ \A k \in 1..Len(response.gaps) :
             response.gaps[k].validation_status \in {"VALID", "MODIFIED"}
        /\ StrictlyIncreasing(response.gaps)
        /\ (opc = "finally" /\ (\A i \in 1..initial_gaps : ValidatedValid(i))
            => /\ response.total_gaps = initial_gaps
               /\ response.valid_gaps = initial_gaps
               /\ Len(response.gaps) = initial_gaps)

\* C19 witness: a SUCCESS response of a Run with three candidates whose
\* second candidate was judged INVALID: two entries, the first and the
\* third candidate, one of them MODIFIED.
C19_Witness ==
    /\ opc = "finally"
    /\ response # None
    /\ response.status = "SUCCESS"
    /\ initial_gaps = 3
    /\ gap_record[2] # None
    /\ gap_record[2].validation_status = "INVALID"
    /\ Len(response.gaps) = 2
    /\ response.gaps[1].order_index = 0
    /\ response.gaps[2].order_index = 2
    /\ response.gaps[2].validation_status = "MODIFIED"

\* C19 witness, second case: every candidate of a Run with three
\* candidates was validated VALID and the response lists all three.
C19_WitnessAllValid ==
    /\ opc = "finally"
    /\ response # None
    /\ response.status = "SUCCESS"
    /\ initial_gaps = 3
    /\ \A i \in 1..initial_gaps : ValidatedValid(i)
    /\ Len(response.gaps) = 3

\* C20: when the paper is missing, or the paper exists but the extraction
\* is missing, candidate generation is not invoked, the Run is marked
\* FAILED and a FAILED response is produced.
C20_MissingPaperOrExtractionFailsRun ==
    (fetched # None /\ (fetched.paper_data = "None" \/ fetched.extracted_content = "empty")) =>
        /\ opc \in {"except", "finally", "finally2", "idle"}
        /\ excStep = "fetch"
        /\ (Decided =>
              /\ analysis.status = "FAILED"
              /\ response # None
              /\ response.status = "FAILED")

\* C12: under every interleaving of the callers, the window of the last
\* time_window units of time never holds more than max_calls completed
\* acquisitions.
C12_WindowNeverOverfull == Len(recent) <= rate_limiter.max_calls

\* C12 witness: two callers checked the window while it had one free slot
\* left; one was admitted and filled the window, the other sleeps.
C12_Witness ==
    \E c, d \in Callers :
        /\ lpc[c] = "done"
        /\ lpc[d] = "sleep"
        /\ Len(recent) = rate_limiter.max_calls
        /\ recent[Len(recent)] = 0

\* C13: a caller is admitted only while fewer than max_calls acquisitions
\* lie in the current window, so with a full window not before the oldest
\* of them has left it; and every caller that waits is admitted in the end.
C13_DelayedUntilRolloverThenAdmitted ==
    /\ [][ \A c \in Callers :
             (lpc[c] # "done" /\ lpc'[c] = "done") =>
                 Len(recent) < rate_limiter.max_calls ]_vars
    /\ \A c \in Callers : (lpc[c] = "check") ~> (lpc[c] = "done")

\* C13 witness: a caller that found the window full and slept has been
\* admitted, and the window is full again.
C13_Witness ==
    \E c \in waited :
        /\ lpc[c] = "done"
        /\ Len(recent) = rate_limiter.max_calls

\* The invocations of o before the last one all failed.
FailedBeforeLast(o) ==
    \A n \in 1..(Len(invocations[o]) - 1) : ~invocations[o][n]

\* C14: a wrapped call that returns has invoked the operation k + 1 times
\* with k < max_attempts failures followed by a success, and returns the
\* success value; a wrapped call that raises has invoked the operation
\* exactly max_attempts times, all failures, and raises the last one's
\* exception; nothing else is ever handed to the caller.
C14_RetryPolicy ==
    \A o \in Ops :
        /\ Len(invocations[o]) <= max_attempts
        /\ (rpc[o] = "returned" =>
              /\ FailedBeforeLast(o)
              /\ invocations[o][Len(invocations[o])]
              /\ Len(invocations[o]) - 1 < max_attempts
              /\ retry_result[o] = SuccessValue(o))
        /\ (rpc[o] = "raised" =>
              /\ Len(invocations[o]) = max_attempts
              /\ \A n \in 1..max_attempts : ~invocations[o][n]
              /\ retry_result[o] = Failure(o, max_attempts))
        /\ (rpc[o] \notin {"returned", "raised"} => retry_result[o] = None)

\* C14 witness: one call returned after two failures, another raised after
\* max_attempts failures.
C14_Witness ==
    \E o, q \in Ops :
        /\ rpc[o] = "returned" /\ Len(invocations[o]) = max_attempts
        /\ rpc[q] = "raised"

\* The similarity of the normalized titles of two results is above 0.8.
NearDuplicates(r1, r2) ==
    LET a == NormalizedTitle(r1.title)
        b == NormalizedTitle(r2.title)
    IN  IF a \cup b = {} THEN TRUE
        ELSE 5 * Cardinality(a \cap b) > 4 * Cardinality(a \cup b)

\* The elements of seq at the positions in K, in order.
RECURSIVE AtPositions(_, _, _)
AtPositions(seq, K, i) ==
    IF i > Len(seq) THEN <<>>
    ELSE (IF i \in K THEN <<seq[i]>> ELSE <<>>) \o AtPositions(seq, K, i + 1)

\* C15: the returned list is the input at a set K of positions, in input
\* order, where a position is left out exactly when its result is a near
\* duplicate (similarity above 0.8) of a kept result before it; so of
\* results with the same normalized title only the first is kept, and two
\* results with similarity at most 0.8 are both kept.
C15_DropsExactlyNearDuplicates ==
    dpc # "called" =>
        /\ \E K \in SUBSET (1..Len(dedup_input)) :
             /\ dedup_output = AtPositions(dedup_input, K, 1)
             /\ \A i \in 1..Len(dedup_input) :
                  i \in K <=> ~\E j \in K : j < i /\ NearDuplicates(dedup_input[i], dedup_input[j])
        /\ \A k, l \in 1..Len(dedup_output) :
             k # l => NormalizedTitle(dedup_output[k].title) # NormalizedTitle(dedup_output[l].title)
        /\ (Len(dedup_input) = 2 /\ ~NearDuplicates(dedup_input[1], dedup_input[2])
              => dedup_output = dedup_input)

\* C15 witness: of three results the second has similarity exactly 0.8 with
\* the first and is kept, the third is written differently but has the
\* first one's normalized title and is dropped.
C15_Witness ==
    /\ dpc = "returned"
    /\ Len(dedup_input) = 3
    /\ dedup_input[1].title.words = {1, 2, 3, 4}
    /\ dedup_input[2].title.words = {1, 2, 3, 4, 5}
    /\ dedup_input[3].title.words = {1, 2, 3, 4}
    /\ dedup_input[3] # dedup_input[1]
    /\ dedup_output = <<dedup_input[1], dedup_input[2]>>

\* C16: _deduplicate_results applied to its own output returns that output.
C16_DeduplicationIdempotent ==
    dpc = "returned_twice" => dedup_twice = dedup_output

\* C16 witness: the second application had near duplicates of dropped
\* results to look at: the input held a result that is a near duplicate of
\* a dropped one and was kept.
C16_Witness ==
    /\ dpc = "returned_twice"
    /\ Len(dedup_output) = 2
    /\ Len(dedup_input) = 3
    /\ \E i \in 1..3 : \E k \in 1..2 :
         /\ \A l \in 1..2 : dedup_output[l] # dedup_input[i]
         /\ NearDuplicates(dedup_input[i], dedup_output[k])
         /\ dedup_output[k] = dedup_input[3]

\* The results of the providers that did not fail, in provider order.
RECURSIVE SucceededResults(_)
SucceededResults(p) ==
    IF p > Len(Providers) THEN <<>>
    ELSE (IF provider_failed[p] THEN <<>> ELSE results_lists[p]) \o SucceededResults(p + 1)

OneProviderFailed == Cardinality({p \in ProviderIds : provider_failed[p]}) = 1

Elements(seq) == {seq[k] : k \in 1..Len(seq)}

\* C17 as stated: when one provider failed, the result of search_papers
\* holds every result of the deduplication of the other two providers'
\* results.
C17_ResultHoldsOtherProvidersResults ==
    (spc = "returned" /\ OneProviderFailed) =>
        Elements(DeduplicateResults(SucceededResults(1))) \subseteq Elements(search_result)

\* C17 amended: when one provider failed, the other two searches ran to
\* their end, and search_papers returns the first max_results results of
\* the deduplication of their results: all of them when they are no more
\* than max_results.
C17_ProviderFailureIsolated ==
    (spc = "returned" /\ OneProviderFailed) =>
        /\ \A p \in ProviderIds : ppc[p] = "done"
        /\ LET expected == DeduplicateResults(SucceededResults(1))
           IN  /\ Len(search_result) <= max_results
               /\ \A k \in 1..Len(search_result) : search_result[k] = expected[k]
               /\ (Len(expected) <= max_results => search_result = expected)

\* C17 witness: the second provider failed, the first and the third each
\* returned a result, and both results are in the returned list.
C17_Witness ==
    /\ spc = "returned"
    /\ provider_failed = <<FALSE, TRUE, FALSE>>
    /\ Len(results_lists[1]) = 1
    /\ Len(results_lists[3]) = 1
    /\ search_result = <<results_lists[1][1], results_lists[3][1]>>

\* The delivered body is malformed: no valid JSON, or JSON that
\* GapAnalysisRequest(**request_data) rejects.
Malformed(b) == b.kind # "json_object" \/ ~b.camel

\* The id an error response should carry for a key of the message: the
\* message's value when it has one, otherwise "unknown".
Salvaged(b, key) ==
    IF b.kind = "json_object" /\ b[key] \in (RequestIds \cup CorrelationIds)
    THEN b[key] ELSE "unknown"

\* C21: when process_message has handled a malformed message and no publish
\* failed, exactly one error response was published, it carries the request
\* id and the correlation id salvaged from the message ("unknown" when the
\* message has none), analyze_paper was not called and the message was
\* acknowledged.
C21_MalformedGetsErrorResponseWithIds ==
    (Handled /\ Malformed(body) /\ ~pubFailed) =>
        /\ Len(published) = 1
        /\ published[1].status = "FAILED"
        /\ published[1].request_id = Salvaged(body, "request_id")
        /\ published[1].correlation_id = Salvaged(body, "correlation_id")
        /\ calls = 0
        /\ settled = "ack"

\* C22: whenever a call of analyze_paper has ended, by returning or by
\* raising, the search client and the extraction client are both closed.
C22_BothClientsClosedAtExit ==
    Ended => (searchClosed /\ grobidClosed)

\* C23: every search of a Run is issued on an open search client and every
\* extraction on an open extraction client: no pipeline takes its search
\* step after the search client was closed, nor its extraction and verdict
\* step after the extraction client was closed.
C23_CallsUseOpenClients ==
    [][ \A i \in Candidates :
          /\ (gpc[i] = "search" /\ gpc'[i] # "search") => ~searchClosed
          /\ (gpc[i] = "verdict" /\ gpc'[i] # "verdict") => ~grobidClosed ]_vars

\* C24: Runs do not overlap: a message is handed to process_message only
\* when no earlier message is still being processed, that is after the
\* handler of the previous message has finished its publish (or the publish
\* failed) and the message was settled.
C24_RunsDoNotOverlap ==
    [][ delivered' # delivered =>
          /\ apc = "idle"
          /\ (delivered > 0 => settled \in {"ack", "reject"}) ]_vars

\* C24 witness: a second message is being processed after the first one
\* was answered and settled.
C24_Witness == delivered >= 2 /\ apc = "exit" /\ Len(published) = 1

\* The steps of the Gap state machine: INITIAL -> VALIDATING ->
\* {VALID, INVALID, MODIFIED}.
StatusStep(from, to) ==
    \/ from = "INITIAL" /\ to = "VALIDATING"
    \/ from = "VALIDATING" /\ to \in {"VALID", "INVALID", "MODIFIED"}

\* C25: a Gap's validation_status only moves along INITIAL -> VALIDATING ->
\* {VALID, INVALID, MODIFIED}: every change of the status of a gap record
\* is one of these steps, so a status VALID, INVALID or MODIFIED is never
\* replaced by another one.
C25_StatusMonotonic ==
    [][ \A i \in Candidates :
          (gap_record[i] # None /\ gap_record'[i] # None) =>
              \/ gap_record'[i].validation_status = gap_record[i].validation_status
              \/ StatusStep(gap_record[i].validation_status,
                            gap_record'[i].validation_status) ]_vars

\* The call of _validate_gap for the pipeline's gap is over.
GapValidated == grecord # None /\ vpc \in {"expand", "returned"}

\* C26: after validation the description differs from the candidate's only
\* for status MODIFIED with a non-empty suggestion, and then it is the
\* suggestion and the history records the original description and the
\* suggestion; a VALID gap has the candidate's description and no history
\* entry.
C26_DescriptionChangesOnlyWhenModified ==
    GapValidated =>
        /\ grecord.description # candidate.description =>
              /\ grecord.validation_status = "MODIFIED"
              /\ grecord.description = "suggestion"
              /\ grecord.modification_history =
                     <<[original |-> candidate.description,
                        modification |-> "suggestion"]>>
        /\ grecord.validation_status = "VALID" =>
              /\ grecord.description = candidate.description
              /\ grecord.modification_history = <<>>

\* The trace holds a call `event` (with argument `arg`).
Called(event) == \E k \in 1..Len(trace) : trace[k].event = event
CalledWith(event, arg) ==
    \E k \in 1..Len(trace) : trace[k].event = event /\ trace[k].arg = arg

\* C27: when the search returned no result, the pipeline ends with the gap
\* VALID, confidence 0.5 and reasoning "no related work found", neither
\* the extraction nor the AI verdict was invoked, and the gap was expanded
\* and is the pipeline's result.
C27_NoRelatedWorkMeansValid ==
    (vpc = "returned" /\ papers_found = "zero") =>
        /\ grecord.validation_status = "VALID"
        /\ grecord.validation_confidence = "0.5"
        /\ grecord.validation_reasoning = [text |-> "no related work found"]
        /\ ~Called("extract_batch")
        /\ ~CalledWith("generate_content", "validate_gap")
        /\ CalledWith("wait_if_needed", "expand_gap_details")
        /\ single_result = "gap_record"

\* The AI call `method` was made and raised.
CallFailed(method) ==
    \E k \in 1..Len(trace) :
        trace[k].event = "generate_content" /\ trace[k].arg = method /\ trace[k].raised

\* The errors a step of validation fails with.
ValidationErrors == {"DatabaseError", "QueryError", "VerdictError"}

\* C28: validation fails open: when a step of the gap's validation failed
\* (an exception reached the except clause of _validate_gap, or the AI
\* verdict call failed), the pipeline ends with the gap VALID, confidence
\* 0.3 and the error's description as reasoning, _validate_gap returned
\* True, and the gap was expanded and is the pipeline's result.
C28_ValidationFailsOpen ==
    (vpc = "returned" /\ (caught # "none" \/ CallFailed("validate_gap"))) =>
        /\ grecord.validation_status = "VALID"
        /\ grecord.validation_confidence = "0.3"
        /\ grecord.validation_reasoning \in
               { [text |-> "Validation error", error |-> e] : e \in ValidationErrors }
        /\ validate_returned = "True"
        /\ CalledWith("wait_if_needed", "expand_gap_details")
        /\ single_result = "gap_record"

\* C29: when the AI search-query generation fails, the query is the
\* fallback built from the gap's name and category and the search is
\* issued with it; the query step always hands over to the search, never
\* to the fail-open handler, and leaves status and confidence as they are.
C29_QueryFailureFallsBack ==
    /\ [](CallFailed("generate_search_query") =>
            /\ grecord.validation_query = [name |-> candidate.name, category |-> candidate.category]
            /\ (vpc # "search" =>
                  CalledWith("search_papers", [name |-> candidate.name, category |-> candidate.category])))
    /\ [][ vpc = "query" =>
             /\ vpc' = "search"
             /\ caught' = "none"
             /\ grecord'.validation_status = grecord.validation_status
             /\ grecord'.validation_confidence = grecord.validation_confidence ]_vars

\* C29 witness: the query generation failed, the search ran with the
\* fallback query and the gap was then validated by the AI verdict.
C29_Witness ==
    /\ vpc = "returned"
    /\ CallFailed("generate_search_query")
    /\ CalledWith("search_papers", [name |-> candidate.name, category |-> candidate.category])
    /\ grecord.validation_confidence = "ai"
    /\ single_result = "gap_record"

\* C30: every request to the AI provider (candidate generation, search
\* query, verdict, expansion) directly follows an acquisition on the rate
\* limiter made by the same method for that request.
C30_EveryAiCallAcquires ==
    \A k \in 1..Len(trace) :
        trace[k].event = "generate_content" =>
            /\ k > 1
            /\ trace[k - 1].event = "wait_if_needed"
            /\ trace[k - 1].arg = trace[k].arg

\* The number of requests `method` sent to the AI provider.
Requests(method) ==
    Cardinality({ k \in 1..Len(trace) :
                    trace[k].event = "generate_content" /\ trace[k].arg = method })

\* C31: a failing external call is retried: when the pipeline has ended
\* and the AI verdict call failed (so that the fail-open default verdict
\* was used), the verdict request was attempted max_attempts times in
\* total, the default being used only after the last attempt failed.
C31_DefaultOnlyAfterAllAttempts ==
    (vpc = "returned" /\ CallFailed("validate_gap")) =>
        Requests("validate_gap") = max_attempts

\* C32: extract_batch returns exactly one ExtractedContent per input
\* paper, in input order: entry i was built by the task of paper i; a
\* paper without a PDF URL and a failing extraction each have, at their
\* own position, an entry with extraction_success false and an error
\* text, and a successful extraction an entry with no error.
C32_OneEntryPerPaperInOrder ==
    epc = "returned" =>
        /\ Len(extracted_contents) = Len(batch_papers)
        /\ \A i \in 1..Len(batch_papers) :
             /\ extracted_contents[i].task = i
             /\ ~HasPdfUrl(batch_papers[i]) =>
                   /\ ~extracted_contents[i].extraction_success
                   /\ extracted_contents[i].error = [text |-> "No PDF available"]
             /\ ~gathered[i].extraction_success =>
                   /\ ~extracted_contents[i].extraction_success
                   /\ extracted_contents[i].error # None
             /\ gathered[i].extraction_success =>
                   /\ extracted_contents[i].extraction_success
                   /\ extracted_contents[i].error = None

\* C32 witness: three papers, the first without PDF URL, the second with
\* a failing extraction, the third extracted; all three entries returned.
C32_Witness ==
    /\ epc = "returned"
    /\ Len(batch_papers) = 3
    /\ ~HasPdfUrl(batch_papers[1])
    /\ HasPdfUrl(batch_papers[2]) /\ ~extracted_contents[2].extraction_success
    /\ extracted_contents[3].extraction_success

\* C33: expansion runs only for a gap whose validation ended VALID or
\* MODIFIED; the gap it ran for is the pipeline's result, with every
\* enrichment field set: the values the AI returned, or, when the
\* expansion request to the AI failed, the placeholders.
C33_ExpansionPopulatesDetails ==
    vpc = "returned" =>
        /\ CalledWith("wait_if_needed", "expand_gap_details") =>
              /\ grecord.validation_status \in {"VALID", "MODIFIED"}
              /\ single_result = "gap_record"
        /\ single_result = "gap_record" =>
              /\ grecord.enrichment \in {ModelDetails, DefaultDetails}
              /\ grecord.enrichment = DefaultDetails <=>
                     CallFailed("expand_gap_details")

\* Every candidate of the Run ended INVALID or was dropped: the fan-out has
\* returned at least one result and every result is null.
NoValidGap ==
    /\ initial_gaps >= 1
    /\ \A i \in 1..initial_gaps : gap_results[i] = None

\* C34: when at least one candidate was generated and every candidate
\* ended INVALID or was dropped, the try statement of analyze_paper ends
\* with the Run COMPLETED and a SUCCESS response with valid_gaps = 0,
\* total_gaps = the number of candidates and an empty gaps list.
C34_NoValidGapStillCompletes ==
    (opc = "finally" /\ NoValidGap) =>
        /\ analysis.status = "COMPLETED"
        /\ row.status = "COMPLETED"
        /\ response # None
        /\ response.status = "SUCCESS"
        /\ response.valid_gaps = 0
        /\ response.total_gaps = initial_gaps
        /\ response.gaps = <<>>

\* C35: search_papers returns the first max_results elements of the
\* deduplication of the providers' results merged in the fixed order
\* Semantic Scholar, CrossRef, arXiv (a failed provider contributing
\* nothing): of the merged list exactly the results that are no near
\* duplicate of a kept earlier one are kept, and the cut is made after
\* that; the result has at most max_results entries and no two of them
\* are near duplicates.
C35_FirstMaxResultsOfDeduplicatedMerge ==
    spc = "returned" =>
        LET merged == results_lists[1] \o results_lists[2] \o results_lists[3]
        IN  /\ \E K \in SUBSET (1..Len(merged)) :
                 /\ \A i \in 1..Len(merged) :
                      i \in K <=> ~\E j \in K : j < i /\ NearDuplicates(merged[i], merged[j])
                 /\ LET kept == AtPositions(merged, K, 1)
                    IN  /\ Len(search_result) = IF Len(kept) < max_results
                                                THEN Len(kept) ELSE max_results
                        /\ \A k \in 1..Len(search_result) : search_result[k] = kept[k]
            /\ Len(search_result) <= max_results
            /\ \A k, l \in 1..Len(search_result) :
                 k # l => ~NearDuplicates(search_result[k], search_result[l])

\* C35 witness: three providers answered with one result each, the second
\* a near duplicate of the first and dropped, the third kept, and the cut
\* to max_results = 1 removed the third.
C35_Witness ==
    /\ spc = "returned"
    /\ max_results = 1
    /\ Len(all_results) = 3
    /\ NearDuplicates(all_results[1], all_results[2])
    /\ unique_results = <<all_results[1], all_results[3]>>
    /\ search_result = <<all_results[1]>>

\* C36: every call of analyze_paper that was started eventually returns,
\* and the Run it created has by then a terminal status in the store
\* (COMPLETED or FAILED, not PROCESSING), whatever fails on the way.
C36_EveryRunTerminates ==
    \A n \in 1..MaxCalls :
        (calls = n /\ opc # "idle") ~>
            (calls = n /\ Ended /\ outcome = "returned"
                /\ (analysis # None => Terminal(row)))

C37_WitnessSuccess ==
    /\ Ended /\ outcome = "returned"
    /\ response.status = "SUCCESS"
    /\ row # None /\ row.status = "COMPLETED"
    /\ row.valid_gaps_count >= 1

\* The Run has been set COMPLETED and committed, and the call still holds
\* its gap objects and results.
RunCompleted ==
    /\ opc \in {"prepare", "finally", "finally2"}
    /\ analysis # None /\ analysis.status = "COMPLETED"
    /\ row # None /\ row.status = "COMPLETED"

\* The candidates of the Run for which a Gap record was created.
GapRecords == {i \in 1..initial_gaps : gap_record[i] # None}

ValidStatuses == {"VALID", "MODIFIED"}
TerminalStatuses == {"VALID", "INVALID", "MODIFIED"}

\* C38: when the Run is COMPLETED, valid_gaps_count is the number of its
\* Gap records with status VALID or MODIFIED, counted on the objects and on
\* the stored rows alike, and every gap that was given one of these
\* statuses is a result of the fan-out, not a null.
C38_ValidCountMatchesStatuses ==
    RunCompleted =>
        /\ row.valid_gaps_count =
              Cardinality({i \in GapRecords :
                             gap_record[i].validation_status \in ValidStatuses})
        /\ row.valid_gaps_count =
              Cardinality({i \in GapRecords :
                             gap_record[i].stored_status \in ValidStatuses})
        /\ \A i \in GapRecords :
              gap_record[i].validation_status \in ValidStatuses =>
                  gap_results[i] = gap_record[i]

\* C39: when the Run is COMPLETED, every Gap record created for it has a
\* terminal validation status, VALID, INVALID or MODIFIED, on the object
\* and in the store: none is left INITIAL or VALIDATING, the records of
\* dropped pipelines included.
C39_NoGapLeftInProgress ==
    RunCompleted =>
        \A i \in GapRecords :
            /\ gap_record[i].validation_status \in TerminalStatuses
            /\ gap_record[i].stored_status \in TerminalStatuses

====
